---- MODULE Spec2Model ----
(***************************************************************************)
(* Model of the request pipeline of the Mutuals+ REST backend: the         *)
(* authentication and authorization gates, the validation gate, the        *)
(* terminal error handler, and the Redis-backed cache-aside layer          *)
(* (cacheMiddleware / clearCacheMiddleware / CacheService).                *)
(***************************************************************************)
EXTENDS Integers, Sequences, FiniteSets, TLC

VARIABLES
  nodeEnv,      \* env.NODE_ENV
  req,          \* the request travelling through a route's middleware chain
  redisClient,  \* the module-level Redis client: "null" or "ready"
  store,        \* the Redis keyspace: key -> entry
  db,           \* the version of the articles data the handlers read and write
  acked,        \* the newest data version whose write has been answered 2xx
  started,      \* requests received so far
  cl,           \* the requests in flight, one per connection
  tasks,        \* deletePattern calls waiting for the reply to KEYS
  hits,         \* the rate limiters' stores: one counter per limiter and address
  conn,         \* requests on the rate-limited routes, one per connection
  arrived,      \* requests received on those connections so far
  pg,           \* a paginated listing request: its query and what became of it
  call,         \* a controller call under asyncHandler and what became of it
  mail,         \* a newsletter or submission request and its third-party calls
  users,        \* the user table: who exists and who is active
  sess,         \* the clients of the auth routes: their request in progress and the tokens they hold
  authOps,      \* auth requests started so far
  rows,         \* the users and the product variants, each with its unique field
  up,           \* the register / createVariant / updateVariant calls in progress
  uniqueOps,    \* such calls started so far
  cart,         \* the cart of one session: whether it exists, and its items
  stock,        \* the stockQuantity of the product variant
  cp,           \* the cart calls in progress
  cartOps,      \* cart calls started so far
  news,         \* the newsletter subscriber record of one email
  np,           \* the subscribe / unsubscribe calls in progress for the email
  successes,    \* the calls that succeeded, in the order they were answered
  arts,         \* the articles, by id: title and slug
  lastSlug,     \* the last createArticle / updateArticle call: its input and the articles before it
  settings,     \* the site settings, by key
  lastSet,      \* the last settings call, the settings before it and the calls so far
  slides,       \* the hero slides, by id: whether the row exists and its order
  lastReorder   \* the last reorderSlides call: its list, its outcome, the slides before it, the calls so far

gateVars == <<nodeEnv, req>>

cacheVars == <<redisClient, store, db, acked, started, cl, tasks>>

limitVars == <<hits, conn, arrived>>

pageVars == <<pg>>

asyncVars == <<call>>

svcVars == <<mail, users, sess, authOps, rows, up, uniqueOps, cart, stock, cp, cartOps, news, np, successes, arts, lastSlug, settings, lastSet, slides, lastReorder>>

\* What the actions of each service leave alone
mailFrame == <<gateVars, cacheVars, limitVars, pageVars, asyncVars, users, sess, authOps, rows, up, uniqueOps, cart, stock, cp, cartOps, news, np, successes, arts, lastSlug, settings, lastSet, slides, lastReorder>>
authFrame == <<gateVars, cacheVars, limitVars, pageVars, asyncVars, mail, rows, up, uniqueOps, cart, stock, cp, cartOps, news, np, successes, arts, lastSlug, settings, lastSet, slides, lastReorder>>
uniqFrame == <<gateVars, cacheVars, limitVars, pageVars, asyncVars, mail, users, sess, authOps, cart, stock, cp, cartOps, news, np, successes, arts, lastSlug, settings, lastSet, slides, lastReorder>>
cartFrame == <<gateVars, cacheVars, limitVars, pageVars, asyncVars, mail, users, sess, authOps, rows, up, uniqueOps, news, np, successes, arts, lastSlug, settings, lastSet, slides, lastReorder>>
newsFrame == <<gateVars, cacheVars, limitVars, pageVars, asyncVars, mail, users, sess, authOps, rows, up, uniqueOps, cart, stock, cp, cartOps, arts, lastSlug, settings, lastSet, slides, lastReorder>>
slugFrame == <<gateVars, cacheVars, limitVars, pageVars, asyncVars, mail, users, sess, authOps, rows, up, uniqueOps, cart, stock, cp, cartOps, news, np, successes, settings, lastSet, slides, lastReorder>>
settingsFrame == <<gateVars, cacheVars, limitVars, pageVars, asyncVars, mail, users, sess, authOps, rows, up, uniqueOps, cart, stock, cp, cartOps, news, np, successes, arts, lastSlug, slides, lastReorder>>
slidesFrame == <<gateVars, cacheVars, limitVars, pageVars, asyncVars, mail, users, sess, authOps, rows, up, uniqueOps, cart, stock, cp, cartOps, news, np, successes, arts, lastSlug, settings, lastSet>>

vars == <<nodeEnv, req, redisClient, store, db, acked, started, cl, tasks, hits, conn, arrived, pg, call,
         mail, users, sess, authOps, rows, up, uniqueOps, cart, stock, cp, cartOps, news, np, successes, arts, lastSlug, settings, lastSet, slides, lastReorder>>

(***************************************************************************)
(* Bounds                                                                  *)
(***************************************************************************)
MaxHeaderLen == 3
TitleMaxLen == 2
MaxQueryLen == 3

(***************************************************************************)
(* Identities, tokens and the Authorization header                         *)
(***************************************************************************)
UserRole == {"SUPER_ADMIN", "ADMIN", "EDITOR", "CONTRIBUTOR"}

NoUser == [id |-> "", role |-> ""]

\* Credentials a client can present.  A token is one indivisible piece of
\* header text; what jwt.verify makes of it is given by VerifyToken.
GoodTokens == {"tSA", "tAD", "tED", "tCO"}
TokenSyms == GoodTokens \cup {"tBadSig", "tExpired"}

TokenClaims(tok) ==
  CASE tok = "tSA" -> [id |-> "u1", role |-> "SUPER_ADMIN"]
    [] tok = "tAD" -> [id |-> "u2", role |-> "ADMIN"]
    [] tok = "tED" -> [id |-> "u3", role |-> "EDITOR"]
    [] tok = "tCO" -> [id |-> "u4", role |-> "CONTRIBUTOR"]
    [] OTHER -> NoUser

\* Header text is a sequence of pieces: the word Bearer, a single space, or a
\* token.  NoHeader is a request without an Authorization header.
HeaderSyms == {"Bearer", " "} \cup TokenSyms
NoHeader == <<"absent">>

RECURSIVE SeqsUpTo(_, _)
SeqsUpTo(S, n) ==
  IF n = 0 THEN {<<>>}
  ELSE LET shorter == SeqsUpTo(S, n - 1)
       IN shorter \cup {Append(s, x) : s \in {t \in shorter : Len(t) = n - 1}, x \in S}

Headers == {NoHeader} \cup SeqsUpTo(HeaderSyms, MaxHeaderLen)

\* authHeader.startsWith('Bearer ')
StartsWithBearer(h) == Len(h) >= 2 /\ h[1] = "Bearer" /\ h[2] = " "

\* authHeader.split(' '): the pieces between single spaces
RECURSIVE Split(_)
Split(h) ==
  IF \A i \in 1..Len(h) : h[i] # " " THEN <<h>>
  ELSE LET i == CHOOSE k \in 1..Len(h) : h[k] = " " /\ \A j \in 1..(k - 1) : h[j] # " "
       IN <<SubSeq(h, 1, i - 1)>> \o Split(SubSeq(h, i + 1, Len(h)))

\* jwt.verify(token, env.JWT_SECRET): the decoded claims, or the error thrown.
\* The signature is checked before the expiry.
VerifyToken(token) ==
  IF Len(token) = 1 /\ token[1] \in GoodTokens
    THEN [ok |-> TRUE, claims |-> TokenClaims(token[1]), err |-> ""]
  ELSE IF Len(token) = 1 /\ token[1] = "tExpired"
    THEN [ok |-> FALSE, claims |-> NoUser, err |-> "TokenExpiredError"]
  ELSE [ok |-> FALSE, claims |-> NoUser, err |-> "JsonWebTokenError"]

\* The error classes that reach the catch block of authenticate, with the
\* class each one extends.
ErrorParent(cls) ==
  CASE cls = "TokenExpiredError" -> "JsonWebTokenError"
    [] cls = "JsonWebTokenError" -> "Error"
    [] cls = "AppError" -> "Error"
    [] OTHER -> "none"

RECURSIVE InstanceOf(_, _)
InstanceOf(cls, parent) ==
  IF cls = "none" THEN FALSE
  ELSE IF cls = parent THEN TRUE
  ELSE InstanceOf(ErrorParent(cls), parent)

(***************************************************************************)
(* Errors and responses                                                    *)
(***************************************************************************)
NoRes == [status |-> 0, success |-> FALSE, message |-> "", keys |-> {}, data |-> {}]

AppError(message, statusCode) ==
  [cls |-> "AppError", name |-> "Error", message |-> message, statusCode |-> statusCode]

PlainError(name) ==
  [cls |-> "Error", name |-> name, message |-> "boom", statusCode |-> 0]

\* errorHandler(err, req, res, next)
errorHandler(err, mode) ==
  LET dev == (mode = "development") IN
  IF InstanceOf(err.cls, "AppError")
    THEN [status |-> err.statusCode, success |-> FALSE, message |-> err.message,
          keys |-> {"success", "message"} \cup (IF dev THEN {"stack"} ELSE {}),
          data |-> {}]
  ELSE IF err.name = "PrismaClientKnownRequestError"
    THEN [status |-> 400, success |-> FALSE, message |-> "Database error occurred",
          keys |-> {"success", "message"} \cup (IF dev THEN {"error"} ELSE {}),
          data |-> {}]
  ELSE IF err.name = "ValidationError"
    THEN [status |-> 400, success |-> FALSE, message |-> "Validation error",
          keys |-> {"success", "message", "errors"}, data |-> {}]
  ELSE IF err.name = "JsonWebTokenError"
    THEN [status |-> 401, success |-> FALSE, message |-> "Invalid token",
          keys |-> {"success", "message"}, data |-> {}]
  ELSE IF err.name = "TokenExpiredError"
    THEN [status |-> 401, success |-> FALSE, message |-> "Token expired",
          keys |-> {"success", "message"}, data |-> {}]
  ELSE [status |-> 500, success |-> FALSE, message |-> "Internal server error",
        keys |-> {"success", "message"} \cup (IF dev THEN {"error", "stack"} ELSE {}),
        data |-> {}]

\* ResponseUtil.success(res, data, message, statusCode)
ResponseUtilSuccess(message, statusCode) ==
  [status |-> statusCode, success |-> TRUE, message |-> message,
   keys |-> {"success", "message", "data"}, data |-> {}]

\* ResponseUtil.error(res, message, statusCode, errors); Undefined stands for
\* an omitted errors argument, any array (also an empty one) is truthy.
Undefined == {<<"undefined">>}

ResponseUtilError(message, statusCode, errors) ==
  [status |-> statusCode, success |-> FALSE, message |-> message,
   keys |-> {"success", "message"} \cup (IF errors # Undefined THEN {"data"} ELSE {}),
   data |-> IF errors # Undefined THEN errors ELSE {}]

(***************************************************************************)
(* Routes: the middleware chain of each route, in declaration order        *)
(***************************************************************************)
Stage(kind, name, roles) == [kind |-> kind, name |-> name, roles |-> roles]

StAuthenticate == Stage("authenticate", "", {})
StAuthorize(roles) == Stage("authorize", "", roles)
StLimiter(name) == Stage("limiter", name, {})
StValidators == Stage("validators", "", {})
StValidate == Stage("validate", "", {})
StUpload == Stage("upload", "", {})
StController == Stage("controller", "", {})

Admins == {"SUPER_ADMIN", "ADMIN"}
Editors == {"SUPER_ADMIN", "ADMIN", "EDITOR"}

RouteNames ==
  {"articles.list", "articles.create", "articles.update", "products.create",
   "media.upload", "media.delete", "auth.login", "auth.me",
   "newsletter.subscribe", "submissions.contact"}

\* The chains with the validation gate declared ahead of authorize.
RouteStagesValidateFirst(route) ==
  CASE route = "articles.list" -> <<StController>>
    [] route = "media.upload" ->
         <<StAuthenticate, StAuthorize(Editors), StLimiter("uploadLimiter"), StUpload,
           StController>>
    [] route = "media.delete" -> <<StAuthenticate, StAuthorize(Admins), StController>>
    [] route = "auth.login" ->
         <<StLimiter("authLimiter"), StValidators, StValidate, StController>>
    [] route = "auth.me" -> <<StAuthenticate, StController>>
    [] route = "newsletter.subscribe" ->
         <<StLimiter("newsletterLimiter"), StValidators, StValidate, StController>>
    [] route = "submissions.contact" ->
         <<StLimiter("submissionLimiter"), StValidators, StValidate, StController>>
    [] OTHER -> <<StAuthenticate, StValidators, StValidate, StAuthorize(Admins), StController>>

\* The chain declared on the router for each route.
RouteStages(route) ==
  CASE route = "articles.list" -> <<StController>>
    [] route = "articles.create" ->
         <<StAuthenticate, StAuthorize(UserRole), StValidators, StValidate, StController>>
    [] route = "articles.update" ->
         <<StAuthenticate, StAuthorize(Editors), StValidators, StValidate, StController>>
    [] route = "products.create" ->
         <<StAuthenticate, StAuthorize(Admins), StValidators, StValidate, StController>>
    [] route = "media.upload" ->
         <<StAuthenticate, StAuthorize(Editors), StLimiter("uploadLimiter"), StUpload,
           StController>>
    [] route = "media.delete" -> <<StAuthenticate, StAuthorize(Admins), StController>>
    [] route = "auth.login" ->
         <<StLimiter("authLimiter"), StValidators, StValidate, StController>>
    [] route = "auth.me" -> <<StAuthenticate, StController>>
    [] route = "newsletter.subscribe" ->
         <<StLimiter("newsletterLimiter"), StValidators, StValidate, StController>>
    [] route = "submissions.contact" ->
         <<StLimiter("submissionLimiter"), StValidators, StValidate, StController>>

\* app.use(`/api/${env.API_VERSION}`, apiLimiter) runs ahead of every router.
Pipeline(route) == <<StLimiter("apiLimiter")>> \o RouteStages(route)

LimiterMessage(name) ==
  CASE name = "apiLimiter" -> "Too many requests from this IP, please try again later."
    [] name = "authLimiter" -> "Too many login attempts, please try again after 15 minutes."
    [] name = "newsletterLimiter" -> "Too many subscription requests, please try again later."
    [] name = "submissionLimiter" -> "Too many submissions, please try again later."
    [] name = "uploadLimiter" -> "Too many upload requests, please try again later."

(***************************************************************************)
(* The request and the stages of its chain                                 *)
(***************************************************************************)
\* The request body: each field is absent or holds text, a sequence of
\* characters.
Fields == {"title", "content", "status", "email", "password", "basePrice"}
Absent == <<"absent">>
LongText == [i \in 1..(TitleMaxLen + 1) |-> "a"]

FieldValues(field) ==
  CASE field = "title" -> {Absent, <<>>, <<" ">>, <<"a">>, <<" ", "a", " ">>, LongText}
    [] field = "content" -> {Absent, <<" ">>, <<"a">>}
    [] field = "status" -> {Absent, <<"DRAFT">>, <<"a">>}
    [] field = "email" -> {Absent, <<"a", "@", "a">>, <<"a">>}
    [] field = "password" -> {Absent, <<"a">>}
    [] field = "basePrice" -> {Absent, <<"1">>, <<"a">>}

Bodies == {b \in [Fields -> UNION {FieldValues(f) : f \in Fields}] :
             \A f \in Fields : b[f] \in FieldValues(f)}

EmptyBody == [f \in Fields |-> Absent]
ValidBody ==
  [title |-> <<"a">>, content |-> <<"a">>, status |-> <<"DRAFT">>,
   email |-> <<"a", "@", "a">>, password |-> <<"a">>, basePrice |-> <<"1">>]

\* The bodies sent through the whole chains.
SampleBodies ==
  {ValidBody, [ValidBody EXCEPT !.title = Absent], [ValidBody EXCEPT !.content = Absent],
   EmptyBody}

\* toString(value) of express-validator: a missing field is the empty string
ToText(v) == IF v = Absent THEN <<>> ELSE v

\* trim()
RECURSIVE TrimLeft(_)
TrimLeft(t) == IF t # <<>> /\ Head(t) = " " THEN TrimLeft(Tail(t)) ELSE t
RECURSIVE TrimRight(_)
TrimRight(t) ==
  IF t # <<>> /\ t[Len(t)] = " " THEN TrimRight(SubSeq(t, 1, Len(t) - 1)) ELSE t
Trim(t) == TrimRight(TrimLeft(t))

\* The validators: notEmpty(), isLength({max}), isIn([...]), isEmail(), isFloat()
ValidatorHolds(op, t) ==
  CASE op = "notEmpty" -> t # <<>>
    [] op = "isLength" -> Len(t) <= TitleMaxLen
    [] op = "isIn" -> t \in {<<"DRAFT">>, <<"PUBLISHED">>, <<"ARCHIVED">>}
    [] op = "isEmail" ->
         \E i \in 2..(Len(t) - 1) : t[i] = "@" /\ \A k \in 1..Len(t) : k # i => t[k] = "a"
    [] op = "isFloat" -> t # <<>> /\ \A i \in 1..Len(t) : t[i] = "1"

Chain(field, optional, ops) == [field |-> field, optional |-> optional, ops |-> ops]

\* The validation chains declared for the fields above.
createArticleValidator ==
  <<Chain("title", FALSE, <<"trim", "notEmpty", "isLength">>),
    Chain("content", FALSE, <<"trim", "notEmpty">>),
    Chain("status", TRUE, <<"isIn">>)>>
updateArticleValidator ==
  <<Chain("title", TRUE, <<"trim", "notEmpty", "isLength">>),
    Chain("status", TRUE, <<"isIn">>)>>
createProductValidator ==
  <<Chain("basePrice", FALSE, <<"notEmpty", "isFloat">>)>>
loginValidator ==
  <<Chain("email", FALSE, <<"isEmail">>),
    Chain("password", FALSE, <<"notEmpty">>)>>
subscribeValidator == <<Chain("email", FALSE, <<"isEmail">>)>>
contactSubmissionValidator == <<Chain("email", FALSE, <<"isEmail">>)>>

RouteValidators(route) ==
  CASE route = "articles.create" -> createArticleValidator
    [] route = "articles.update" -> updateArticleValidator
    [] route = "products.create" -> createProductValidator
    [] route = "auth.login" -> loginValidator
    [] route = "newsletter.subscribe" -> subscribeValidator
    [] route = "submissions.contact" -> contactSubmissionValidator
    [] OTHER -> <<>>

\* One chain: sanitizers change the value, every validator that fails adds
\* its error and the chain goes on (no bail()).
RECURSIVE RunOps(_, _, _)
RunOps(field, ops, t) ==
  IF ops = <<>> THEN {}
  ELSE IF Head(ops) = "trim" THEN RunOps(field, Tail(ops), Trim(t))
  ELSE (IF ValidatorHolds(Head(ops), t) THEN {} ELSE {<<field, Head(ops)>>})
         \cup RunOps(field, Tail(ops), t)

RunChain(c, body) ==
  IF c.optional /\ body[c.field] = Absent THEN {}
  ELSE RunOps(c.field, c.ops, ToText(body[c.field]))

\* Chains that stop at the first field in error
RECURSIVE RunValidatorsFirstFieldOnly(_, _)
RunValidatorsFirstFieldOnly(chains, body) ==
  IF chains = <<>> THEN {}
  ELSE IF RunChain(Head(chains), body) # {} THEN RunChain(Head(chains), body)
  ELSE RunValidatorsFirstFieldOnly(Tail(chains), body)

\* Every chain of the route runs; validationResult(req) holds all errors.
RECURSIVE RunValidators(_, _)
RunValidators(chains, body) ==
  IF chains = <<>> THEN {}
  ELSE RunChain(Head(chains), body) \cup RunValidators(Tail(chains), body)

NewReq(route, stages, header, body, user) ==
  [route |-> route, stages |-> stages, header |-> header, body |-> body,
   pc |-> 1, user |-> user, errors |-> {}, ran |-> <<>>, res |-> NoRes]

IdleReq ==
  [route |-> "", stages |-> <<>>, header |-> NoHeader, body |-> EmptyBody,
   pc |-> 0, user |-> NoUser, errors |-> {}, ran |-> <<>>, res |-> NoRes]

InFlight == req.pc \in 1..Len(req.stages) /\ req.res = NoRes
Current == req.stages[req.pc]
Finished == req.res # NoRes

\* next(): hand the request to the following stage
PassOn(r, kind) == [r EXCEPT !.pc = @ + 1, !.ran = Append(@, kind)]
\* a response was sent; nothing further in the chain runs
Respond(r, kind, res) == [r EXCEPT !.res = res, !.ran = Append(@, kind)]

\* authenticate without its second check (the empty token part)
authenticateOutcomeNoEmptyCheck(h) ==
  IF h = NoHeader \/ ~StartsWithBearer(h)
    THEN [ok |-> FALSE, user |-> NoUser, err |-> AppError("No token provided", 401)]
  ELSE LET v == VerifyToken(Split(h)[2]) IN
    IF v.ok THEN [ok |-> TRUE, user |-> v.claims, err |-> AppError("", 0)]
    ELSE [ok |-> FALSE, user |-> NoUser, err |-> AppError("Invalid token", 401)]

\* authenticate: what the try block yields for a header, as the error the
\* catch block hands to next(), or the identity attached to the request.
authenticateOutcome(h) ==
  IF h = NoHeader \/ ~StartsWithBearer(h)
    THEN [ok |-> FALSE, user |-> NoUser, err |-> AppError("No token provided", 401)]
  ELSE LET token == Split(h)[2] IN
    IF token = <<>>
      THEN [ok |-> FALSE, user |-> NoUser, err |-> AppError("No token provided", 401)]
    ELSE LET v == VerifyToken(token) IN
      IF v.ok THEN [ok |-> TRUE, user |-> v.claims, err |-> AppError("", 0)]
      ELSE IF InstanceOf(v.err, "JsonWebTokenError")
        THEN [ok |-> FALSE, user |-> NoUser, err |-> AppError("Invalid token", 401)]
      ELSE IF InstanceOf(v.err, "TokenExpiredError")
        THEN [ok |-> FALSE, user |-> NoUser, err |-> AppError("Token expired", 401)]
      ELSE [ok |-> FALSE, user |-> NoUser,
            err |-> [cls |-> v.err, name |-> v.err, message |-> "", statusCode |-> 0]]

\* authorize that only asks for an identity, whatever its role
authorizeOutcomeAnyRole(user, roles) ==
  IF user = NoUser
    THEN [ok |-> FALSE, err |-> AppError("Not authenticated", 401)]
  ELSE [ok |-> TRUE, err |-> AppError("", 0)]

\* authorize(...roles): "next" or the error handed to next()
authorizeOutcome(user, roles) ==
  IF user = NoUser
    THEN [ok |-> FALSE, err |-> AppError("Not authenticated", 401)]
  ELSE IF user.role \notin roles
    THEN [ok |-> FALSE, err |-> AppError("Not authorized to access this resource", 403)]
  ELSE [ok |-> TRUE, err |-> AppError("", 0)]

\* validate: the response of the validation gate, or NoRes for next()
validateOutcome(errors) ==
  IF errors # {} THEN ResponseUtilError("Validation failed", 400, errors) ELSE NoRes

\* The request-scoped context is dropped once the response has been sent.
Discard ==
  /\ Finished
  /\ req' = IdleReq
  /\ UNCHANGED <<nodeEnv, cacheVars, limitVars, pageVars, asyncVars, svcVars>>

Receive ==
  /\ req = IdleReq
  /\ \E route \in RouteNames, h \in Headers, body \in SampleBodies :
       req' = NewReq(route, Pipeline(route), h, body, NoUser)
  /\ UNCHANGED <<nodeEnv, cacheVars, limitVars, pageVars, asyncVars, svcVars>>

\* A rate limiter either lets the request through or answers 429 with its
\* fixed message; which one depends on the client's counter.
RateLimit ==
  /\ InFlight /\ Current.kind = "limiter"
  /\ \/ req' = PassOn(req, "limiter")
     \/ req' = Respond(req, "limiter",
                       [status |-> 429, success |-> FALSE,
                        message |-> LimiterMessage(Current.name),
                        keys |-> {"success", "message"}, data |-> {}])
  /\ UNCHANGED <<nodeEnv, cacheVars, limitVars, pageVars, asyncVars, svcVars>>

Authenticate ==
  /\ InFlight /\ Current.kind = "authenticate"
  /\ LET out == authenticateOutcome(req.header) IN
       IF out.ok
         THEN req' = [PassOn(req, "authenticate") EXCEPT !.user = out.user]
         ELSE req' = Respond(req, "authenticate", errorHandler(out.err, nodeEnv))
  /\ UNCHANGED <<nodeEnv, cacheVars, limitVars, pageVars, asyncVars, svcVars>>

Authorize ==
  /\ InFlight /\ Current.kind = "authorize"
  /\ LET out == authorizeOutcome(req.user, Current.roles) IN
       IF out.ok
         THEN req' = PassOn(req, "authorize")
         ELSE req' = Respond(req, "authorize", errorHandler(out.err, nodeEnv))
  /\ UNCHANGED <<nodeEnv, cacheVars, limitVars, pageVars, asyncVars, svcVars>>

\* The express-validator chains of the route record their errors on the
\* request and call next().
Validators ==
  /\ InFlight /\ Current.kind = "validators"
  /\ req' = [PassOn(req, "validators") EXCEPT
              !.errors = RunValidators(RouteValidators(req.route), req.body)]
  /\ UNCHANGED <<nodeEnv, cacheVars, limitVars, pageVars, asyncVars, svcVars>>

Validate ==
  /\ InFlight /\ Current.kind = "validate"
  /\ LET out == validateOutcome(req.errors) IN
       IF out = NoRes
         THEN req' = PassOn(req, "validate")
         ELSE req' = Respond(req, "validate", out)
  /\ UNCHANGED <<nodeEnv, cacheVars, limitVars, pageVars, asyncVars, svcVars>>

\* multer: accepts the file, or the file filter rejects its type
Upload ==
  /\ InFlight /\ Current.kind = "upload"
  /\ \/ req' = PassOn(req, "upload")
     \/ req' = Respond(req, "upload",
                       errorHandler(AppError("File type is not allowed", 400), nodeEnv))
  /\ UNCHANGED <<nodeEnv, cacheVars, limitVars, pageVars, asyncVars, svcVars>>

\* A controller wrapped by asyncHandler: it answers through ResponseUtil or
\* throws, and a throw reaches errorHandler.
Controller ==
  /\ InFlight /\ Current.kind = "controller"
  /\ \E out \in {"ok", "notFound", "crash"} :
       req' = Respond(req, "controller",
                CASE out = "ok" -> ResponseUtilSuccess("Success", 200)
                  [] out = "notFound" -> errorHandler(AppError("Not found", 404), nodeEnv)
                  [] out = "crash" -> errorHandler(PlainError("Error"), nodeEnv))
  /\ UNCHANGED <<nodeEnv, cacheVars, limitVars, pageVars, asyncVars, svcVars>>

(***************************************************************************)
(* The cache-aside layer: Redis, CacheService and the two middlewares      *)
(***************************************************************************)
CacheTtl == 2
ServiceTtl == 1
MaxRequests == 3
MaxWrites == 1

Clients == {"c1", "c2"}

\* URLs of the GET routes behind cacheMiddleware, and the keys in Redis.
Urls == {<<"/articles">>, <<"/events">>}
ServiceKey == <<"article:", "1">>

\* cacheKey = `cache:${req.originalUrl || req.url}`, with every URL under one key
CacheKeyNoUrl(url) == <<"cache:">>

\* cacheKey = `cache:${req.originalUrl || req.url}`
CacheKey(url) == <<"cache:">> \o url

Keys == {CacheKey(u) : u \in Urls} \cup {ServiceKey}

\* The patterns a write route for articles hands to clearCacheMiddleware.
ArticlePatterns == <<<<"cache:", "/articles", "*">>, <<"article:", "*">>>>

\* Glob matching as KEYS does it: "*" stands for any run of text.
RECURSIVE GlobMatch(_, _)
GlobMatch(p, k) ==
  IF p = <<>> THEN k = <<>>
  ELSE IF p[1] = "*"
    THEN GlobMatch(Tail(p), k) \/ (k # <<>> /\ GlobMatch(p, Tail(k)))
  ELSE k # <<>> /\ p[1] = k[1] /\ GlobMatch(Tail(p), Tail(k))

\* JavaScript values the handlers answer with: an envelope whose data holds
\* the data version read and a Date.
NoData == [ver |-> -1, createdAt |-> <<"undefined", 0>>]
OkBody(ver) ==
  [success |-> TRUE, message |-> "Success",
   data |-> [ver |-> ver, createdAt |-> <<"Date", ver>>]]
ErrBody(message) == [success |-> FALSE, message |-> message, data |-> NoData]
\* null, as a value and as the absence of text
Null == [success |-> FALSE, message |-> "null", data |-> NoData]
NoText == <<"null", Null>>

\* JSON.stringify: a Date becomes its ISO string
Stringify(v) ==
  <<"json", [v EXCEPT !.data.createdAt = IF @[1] = "Date" THEN <<"string", @[2]>> ELSE @]>>
\* JSON.parse
Parse(j) == j[2]

\* Redis entries: the text stored, the seconds the key has left to live and
\* the ttl it was stored with.  age, wire and url remember for how long the
\* entry has been there and the response that stored it.
NoEntry ==
  [json |-> NoText, left |-> 0, ttl |-> 0, age |-> 0, wire |-> NoText, url |-> <<>>]

NoExpiry == -1

\* GET key
RedisGet(st, key) == st[key]

\* SET key value, without an expiry
RedisSetNoExpiry(st, key, ttl, json, wire, url) ==
  [st EXCEPT ![key] = [json |-> json, left |-> NoExpiry, ttl |-> ttl, age |-> 0,
                       wire |-> wire, url |-> url]]

\* SETEX key ttl value
RedisSetex(st, key, ttl, json, wire, url) ==
  [st EXCEPT ![key] = [json |-> json, left |-> ttl, ttl |-> ttl, age |-> 0,
                       wire |-> wire, url |-> url]]

\* KEYS pattern
RedisKeys(st, pattern) ==
  {k \in Keys : RedisGet(st, k) # NoEntry /\ GlobMatch(pattern, k)}

\* DEL key [key ...]
RedisDel(st, keys) == [k \in Keys |-> IF k \in keys THEN NoEntry ELSE st[k]]

\* One second passes in Redis: a key whose time to live is up is gone.
RedisSecond(st) ==
  [k \in Keys |->
     IF st[k] = NoEntry \/ st[k].left = 1 THEN NoEntry
     ELSE [st[k] EXCEPT !.left = IF @ = NoExpiry THEN @ ELSE @ - 1,
                        !.age = IF @ <= st[k].ttl THEN @ + 1 ELSE @]]

\* CacheService.get: null without a client, on a missing key and on an error
CacheServiceGet(client, st, key, fails) ==
  IF client = "null" THEN Null
  ELSE IF fails THEN Null
  ELSE LET e == RedisGet(st, key) IN
       IF e = NoEntry THEN Null ELSE Parse(e.json)

\* CacheService.set that leaves an existing entry alone (SET ... NX)
CacheServiceSetIfAbsent(client, st, key, value, ttl, fails, wire, url) ==
  IF client = "null" THEN st
  ELSE IF fails THEN st
  ELSE IF st[key] # NoEntry THEN st
  ELSE [st EXCEPT ![key] = [json |-> Stringify(value), left |-> ttl, ttl |-> ttl, age |-> 0,
                            wire |-> wire, url |-> url]]

\* CacheService.set: the keyspace after the call
CacheServiceSet(client, st, key, value, ttl, fails, wire, url) ==
  IF client = "null" THEN st
  ELSE IF fails THEN st
  ELSE RedisSetex(st, key, ttl, Stringify(value), wire, url)

\* CacheService.deletePattern, up to the reply to KEYS: the keys it will delete
DeletePatternKeys(client, st, pattern, fails) ==
  IF client = "null" THEN {}
  ELSE IF fails THEN {}
  ELSE RedisKeys(st, pattern)

\* CacheService.deletePattern, after the reply to KEYS
DeletePatternDel(st, keys, fails) ==
  IF keys # {} /\ ~fails THEN RedisDel(st, keys) ELSE st

\* clearCacheMiddleware with only the lower bound of its status test
IsSuccessStatusNoUpperBound(status) == status >= 200

\* clearCacheMiddleware: res.statusCode >= 200 && res.statusCode < 300
IsSuccessStatus(status) == status >= 200 /\ status < 300

NoResponse == [status |-> 0, wire |-> NoText, from |-> ""]

\* A res.json override that waits for the cache write and fails with it
JsonResponseFailsWithCache(status, body, cacheFailed) ==
  IF cacheFailed
    THEN [status |-> 500, wire |-> Stringify(ErrBody("Internal server error")),
          from |-> "handler"]
    ELSE [status |-> status, wire |-> Stringify(body), from |-> "handler"]

\* The overridden res.json of both middlewares: originalJson(body), whatever
\* became of the cache call
JsonResponse(status, body, cacheFailed) ==
  [status |-> status, wire |-> Stringify(body), from |-> "handler"]

\* cacheMiddleware on a hit: res.json(cachedResponse)
CachedResponse(cached) == [status |-> 200, wire |-> Stringify(cached), from |-> "cache"]

IdleClient ==
  [kind |-> "", url |-> <<>>, key |-> <<>>, pc |-> "idle", cached |-> Null,
   seen |-> NoEntry, lookupFailed |-> FALSE,
   status |-> 0, body |-> ErrBody(""), runs |-> 0, seenAck |-> 0, res |-> NoResponse]

\* The cache-side state while only the gates are exercised, and at start-up.
CacheQuiet ==
  /\ store = [k \in Keys |-> NoEntry]
  /\ db = 0
  /\ acked = 0
  /\ started = 0
  /\ cl = [c \in Clients |-> IdleClient]
  /\ tasks = {}

(***************************************************************************)
(* The rate limiters: express-rate-limit, each with its own in-memory      *)
(* store keyed by the client address, counting over a fixed window.  The   *)
(* maxima are scaled down; requests arrive at any time, so the window of a *)
(* counter may run out between any two steps.                              *)
(***************************************************************************)
ApiMax == 2
AuthMax == 1
NewsletterMax == 1
SubmissionMax == 1
UploadMax == 1
MaxArrivals == 3

Addrs == {"ip1", "ip2"}
\* The connections; a request arrives on the first free one.
ConnOrder == <<"k1", "k2">>
Conns == {ConnOrder[i] : i \in 1..Len(ConnOrder)}

LimiterNames ==
  {"apiLimiter", "authLimiter", "newsletterLimiter", "submissionLimiter", "uploadLimiter"}

\* max
LimiterMax(name) ==
  CASE name = "apiLimiter" -> ApiMax
    [] name = "authLimiter" -> AuthMax
    [] name = "newsletterLimiter" -> NewsletterMax
    [] name = "submissionLimiter" -> SubmissionMax
    [] name = "uploadLimiter" -> UploadMax

\* No limiter is configured with skipSuccessfulRequests
SkipSuccessfulRequestsNowhere(name) == FALSE

\* skipSuccessfulRequests
SkipSuccessfulRequests(name) == name = "authLimiter"

\* One store for all limiters, keyed by the address alone
CounterKeySharedStore(name, addr) == <<"store", addr>>

\* Each rateLimit(...) call has a store of its own, keyed by req.ip
CounterKey(name, addr) == <<name, addr>>

CounterKeys == {CounterKey(n, a) : n \in LimiterNames, a \in Addrs}

\* A counter: the hits in the current window and whether a window is open
\* (windowMs has not yet passed since its first hit).  arrivals remembers
\* how many requests reached the limiter in this window and failed, for the
\* limiter of the authentication endpoints, how many of them were answered
\* with a status of 400 or more; windows counts the windows opened so far.
NoHits == [count |-> 0, arrivals |-> 0, failed |-> 0, open |-> FALSE, windows |-> 0]

\* store.increment(key): the first hit opens the window
StoreIncrement(h) ==
  [h EXCEPT !.count = @ + 1, !.arrivals = @ + 1, !.open = TRUE,
            !.windows = IF h.open THEN @ ELSE @ + 1]

\* store.decrement(key)
StoreDecrement(h) == IF h.count > 0 THEN [h EXCEPT !.count = @ - 1] ELSE h

\* The limit test that already refuses the max-th request
LimitExceededAtMax(totalHits, max) == totalHits >= max

\* totalHits > max
LimitExceeded(totalHits, max) == totalHits > max

\* requestWasSuccessful: response.statusCode < 400
RequestWasSuccessful(status) == status < 400

\* The 429 response of a limiter: res.status(429).send(message)
LimiterResponse(name) ==
  [status |-> 429, success |-> FALSE, message |-> LimiterMessage(name),
   keys |-> {"success", "message"}, data |-> {}]

\* Routes of every route group, and the routes behind authLimiter.
LimitRoutes ==
  {"auth.login", "newsletter.subscribe", "submissions.contact", "media.upload"}
AuthRoutes == {"auth.login"}

NoConn ==
  [addr |-> "", route |-> "", pc |-> 0, judged |-> <<>>, listen |-> {}, ran |-> <<>>,
   res |-> NoRes]

LimitQuiet ==
  /\ hits = [key \in CounterKeys |-> NoHits]
  /\ conn = [k \in Conns |-> NoConn]
  /\ arrived = 0

(***************************************************************************)
(* Pagination: parsePaginationParams, the services' offset and             *)
(* ResponseUtil.paginated.  JavaScript numbers are integers or NaN.        *)
(***************************************************************************)
Num(v) == [nan |-> FALSE, v |-> v]
NaN == [nan |-> TRUE, v |-> 0]

\* Math.max, Math.min, -, * and Math.ceil(a / b): NaN if an operand is NaN
JsMax(a, b) == IF a.nan \/ b.nan THEN NaN ELSE Num(IF a.v >= b.v THEN a.v ELSE b.v)
JsMin(a, b) == IF a.nan \/ b.nan THEN NaN ELSE Num(IF a.v <= b.v THEN a.v ELSE b.v)
JsSub(a, b) == IF a.nan \/ b.nan THEN NaN ELSE Num(a.v - b.v)
JsMul(a, b) == IF a.nan \/ b.nan THEN NaN ELSE Num(a.v * b.v)
\* Math.ceil(a / b), for b > 0
JsCeilDiv(a, b) ==
  IF a.nan \/ b.nan \/ b.v = 0 THEN NaN
  ELSE Num((a.v \div b.v) + (IF a.v % b.v = 0 THEN 0 ELSE 1))

\* Query parameters are absent or text.
QueryChars == {"0", "1", "-", "a"}
QueryValues == {Absent} \cup SeqsUpTo(QueryChars, MaxQueryLen)

Digit(c) == IF c = "1" THEN 1 ELSE 0
IsDigit(c) == c \in {"0", "1"}

\* The value of a run of decimal digits
RECURSIVE Decimal(_)
Decimal(t) == IF t = <<>> THEN 0 ELSE 10 * Decimal(SubSeq(t, 1, Len(t) - 1)) + Digit(t[Len(t)])

\* The longest prefix of digits
RECURSIVE DigitPrefix(_)
DigitPrefix(t) ==
  IF t = <<>> \/ ~IsDigit(Head(t)) THEN <<>> ELSE <<Head(t)>> \o DigitPrefix(Tail(t))

\* parseInt(text, 10): an optional sign and the digits that follow; NaN if
\* there are none
ParseInt(t) ==
  LET neg == t # <<>> /\ Head(t) = "-"
      digits == DigitPrefix(IF neg THEN Tail(t) ELSE t)
  IN IF digits = <<>> THEN NaN
     ELSE Num(IF neg THEN 0 - Decimal(digits) ELSE Decimal(digits))

\* String(value || fallback): a missing or empty parameter is falsy
OrDefault(value, fallback) == IF value = Absent \/ value = <<>> THEN fallback ELSE value

\* parsePaginationParams(query)
parsePaginationParams(query) ==
  LET page == JsMax(Num(1), ParseInt(OrDefault(query.page, <<"1">>)))
      limit == JsMin(Num(100), JsMax(Num(1), ParseInt(OrDefault(query.limit, <<"1", "0">>))))
  IN [skip |-> JsMul(JsSub(page, Num(1)), limit), take |-> limit, page |-> page,
      limit |-> limit]

\* The row counts the listing queries come back with.
Totals == {0, 1, 10, 11, 101}

NoMeta == [total |-> NaN, page |-> NaN, limit |-> NaN, totalPages |-> NaN]

\* ResponseUtil.paginated rounding the page count down
ResponseUtilPaginatedFloor(total, page, limit) ==
  [status |-> 200, success |-> TRUE, message |-> "Success",
   keys |-> {"success", "message", "data", "meta"},
   meta |-> [total |-> total, page |-> page, limit |-> limit,
             totalPages |-> IF total.nan \/ limit.nan THEN NaN ELSE Num(total.v \div limit.v)]]

\* ResponseUtil.paginated(res, data, total, page, limit, message)
ResponseUtilPaginated(total, page, limit) ==
  [status |-> 200, success |-> TRUE, message |-> "Success",
   keys |-> {"success", "message", "data", "meta"},
   meta |-> [total |-> total, page |-> page, limit |-> limit,
             totalPages |-> JsCeilDiv(total, limit)]]

IdlePage ==
  [query |-> [page |-> Absent, limit |-> Absent], pc |-> "idle",
   params |-> [skip |-> NaN, take |-> NaN, page |-> NaN, limit |-> NaN],
   skip |-> NaN, take |-> NaN,
   res |-> [status |-> 0, success |-> FALSE, message |-> "", keys |-> {}, meta |-> NoMeta]]

PageQuiet == pg = IdlePage

(***************************************************************************)
(* asyncHandler and the way an error reaches errorHandler                  *)
(***************************************************************************)
NoError == [cls |-> "none", name |-> "", message |-> "", statusCode |-> 0]

\* What controllers throw: AppErrors with their status, and errors of other
\* classes, told apart by their name.
AppErrorMessages == {"Not found", "Already exists"}
AppErrorStatuses == {400, 401, 403, 404, 409, 500}
PlainErrorNames ==
  {"Error", "TypeError", "PrismaClientKnownRequestError", "PrismaClientValidationError",
   "ValidationError", "JsonWebTokenError", "TokenExpiredError"}
ThrownErrors ==
  {AppError(m, c) : m \in AppErrorMessages, c \in AppErrorStatuses}
    \cup {PlainError(n) : n \in PlainErrorNames}

\* The names errorHandler has a branch for
ClassifiedNames ==
  {"PrismaClientKnownRequestError", "ValidationError", "JsonWebTokenError",
   "TokenExpiredError"}

\* How a call of the wrapped function ends: it answered and its promise
\* resolved, its promise rejected, or it threw before returning a promise.
FnOutcomes ==
  {[kind |-> "resolved", err |-> NoError]}
    \cup {[kind |-> k, err |-> e] : k \in {"rejected", "threw"}, e \in ThrownErrors}

\* a wrapper that drops the rejection instead of passing it on
asyncHandlerNoCatch(out) ==
  CASE out.kind = "resolved" -> [pc |-> "done", err |-> NoError]
    [] out.kind = "rejected" -> [pc |-> "dropped", err |-> out.err]
    [] out.kind = "threw" -> [pc |-> "next", err |-> out.err]

\* asyncHandler(fn): Promise.resolve(fn(req, res, next)).catch(next).  A
\* rejection is passed to next; a throw leaves the wrapper and the router
\* passes it to next.
asyncHandler(out) ==
  CASE out.kind = "resolved" -> [pc |-> "done", err |-> NoError]
    [] out.kind = "rejected" -> [pc |-> "next", err |-> out.err]
    [] out.kind = "threw" -> [pc |-> "next", err |-> out.err]

\* The handlers app.ts mounts after the routes, in order; next(err) skips
\* those that do not take an error.
TerminalHandlers == <<[name |-> "notFound", takesError |-> FALSE],
                      [name |-> "errorHandler", takesError |-> TRUE]>>

IdleCall ==
  [pc |-> "idle", out |-> [kind |-> "resolved", err |-> NoError], err |-> NoError,
   at |-> 0, sent |-> 0, by |-> "", res |-> NoRes]

AsyncQuiet == call = IdleCall

(***************************************************************************)
(* Newsletter and submission requests with their Mailchimp and email calls *)
(***************************************************************************)
MailOps == {"subscribe", "unsubscribe", "contact", "artist"}

\* The subscriber record found for the email, by its status
PriorRecords == {"none", "ACTIVE", "UNSUBSCRIBED"}

\* How a call to Mailchimp or SendGrid ends, if it ends
ThirdPartyOutcomes == {"ok", "error"}

\* The emails createContactSubmission and createArtistSubmission send
SubmissionEmails == {"notification", "confirmation"}

IdleMail ==
  [op |-> "", prior |-> "none", mailchimp |-> FALSE, sendgrid |-> FALSE, pc |-> "idle",
   saved |-> FALSE, isNew |-> FALSE, awaiting |-> "", background |-> {}, log |-> {},
   status |-> 0]

\* After the database write of subscribe / unsubscribe: the Mailchimp sync,
\* skipped at once when Mailchimp is not configured
AfterSave(m) ==
  IF m.mailchimp THEN [m EXCEPT !.pc = "await", !.awaiting = "mailchimp"]
  ELSE IF m.op = "subscribe" /\ m.isNew THEN [m EXCEPT !.pc = "welcome"]
  ELSE [m EXCEPT !.pc = "return"]

(***************************************************************************)
(* AuthService: login, refreshToken, getProfile and the tokens they sign   *)
(***************************************************************************)
MaxAuthOps == 3

UserIds == {"u1", "u2"}
AuthClients == {"c1", "c2"}

\* The email each user registered with; "e0" is nobody's
EmailOf(u) == IF u = "u1" THEN "e1" ELSE "e2"
LoginEmails == {EmailOf(u) : u \in UserIds} \cup {"e0"}

NoRecord == [id |-> "", email |-> "", role |-> "", exists |-> FALSE, isActive |-> FALSE]

UserRecord(u, exists, active) ==
  [id |-> u, email |-> EmailOf(u), role |-> "EDITOR", exists |-> exists, isActive |-> active]

AllUsersActive == [u \in UserIds |-> UserRecord(u, TRUE, TRUE)]

\* prisma.user.findUnique({ where: { email } })
FindUserByEmail(table, email) ==
  IF \E u \in UserIds : table[u].exists /\ table[u].email = email
    THEN table[CHOOSE u \in UserIds : table[u].exists /\ table[u].email = email]
    ELSE NoRecord

\* prisma.user.findUnique({ where: { id } })
FindUserById(table, id) ==
  IF id \in UserIds /\ table[id].exists THEN table[id] ELSE NoRecord

\* A token: the secret it was signed with, its payload, and whether its
\* expiry has passed.
NoToken == [secret |-> "", id |-> "", userId |-> "", email |-> "", role |-> "", expired |-> FALSE]

\* generateAccessToken signing the email where the id belongs
generateAccessTokenWrongSubject(userId, email, role) ==
  [secret |-> "JWT_SECRET", id |-> email, userId |-> "", email |-> email, role |-> role,
   expired |-> FALSE]

\* generateAccessToken(userId, email, role): jwt.sign({id, email, role}, JWT_SECRET)
generateAccessToken(userId, email, role) ==
  [secret |-> "JWT_SECRET", id |-> userId, userId |-> "", email |-> email, role |-> role,
   expired |-> FALSE]

\* generateRefreshToken(userId): jwt.sign({userId}, JWT_REFRESH_SECRET)
generateRefreshToken(userId) ==
  [secret |-> "JWT_REFRESH_SECRET", id |-> "", userId |-> userId, email |-> "", role |-> "",
   expired |-> FALSE]

\* jwt.verify(token, secret): the signature is checked, then the expiry
JwtVerify(token, secret) ==
  IF token.secret # secret THEN [ok |-> FALSE, err |-> "JsonWebTokenError"]
  ELSE IF token.expired THEN [ok |-> FALSE, err |-> "TokenExpiredError"]
  ELSE [ok |-> TRUE, err |-> ""]

NoAuthRes == [status |-> 0, message |-> "", id |-> "", access |-> NoToken, refresh |-> NoToken]

AuthFail(status, message) == [NoAuthRes EXCEPT !.status = status, !.message = message]

\* login without the isActive check
loginChecksNoActiveCheck(user) ==
  IF ~user.exists THEN AuthFail(401, "Invalid credentials")
  ELSE NoAuthRes

\* login, from the record found to the password check
loginChecks(user) ==
  IF ~user.exists THEN AuthFail(401, "Invalid credentials")
  ELSE IF ~user.isActive THEN AuthFail(401, "Account is deactivated")
  ELSE NoAuthRes

\* login, from the password check on
loginIssue(user, isPasswordValid) ==
  IF ~isPasswordValid THEN AuthFail(401, "Invalid credentials")
  ELSE [status |-> 200, message |-> "Login successful", id |-> user.id,
        access |-> generateAccessToken(user.id, user.email, user.role),
        refresh |-> generateRefreshToken(user.id)]

\* refreshToken(refreshToken): everything thrown inside the try block, also
\* the AppError for a missing or inactive user, is replaced by one 401
refreshTokenOutcome(token, table) ==
  LET v == JwtVerify(token, "JWT_REFRESH_SECRET")
      user == FindUserById(table, token.userId)
  IN IF ~v.ok \/ ~user.exists \/ ~user.isActive
       THEN AuthFail(401, "Invalid or expired refresh token")
       ELSE [status |-> 200, message |-> "Token refreshed successfully", id |-> user.id,
             access |-> generateAccessToken(user.id, user.email, user.role),
             refresh |-> NoToken]

\* GET /auth/me: authenticate, then getProfile(req.user.id)
NoAuthHeader == [present |-> FALSE, token |-> NoToken]
Bearer(token) == [present |-> TRUE, token |-> token]

getProfileOutcome(header, table) ==
  IF ~header.present THEN AuthFail(401, "No token provided")
  ELSE LET v == JwtVerify(header.token, "JWT_SECRET") IN
    IF ~v.ok
      THEN AuthFail(401, IF v.err = "TokenExpiredError" THEN "Token expired"
                         ELSE "Invalid token")
    ELSE LET user == FindUserById(table, header.token.id) IN
      IF ~user.exists THEN AuthFail(404, "User not found")
      ELSE [NoAuthRes EXCEPT !.status = 200, !.message = "Profile retrieved successfully",
                             !.id = user.id]

\* A client: the request it has in progress, the last answer it got and the
\* tokens of its last successful login.  seen is the user record the request
\* read, activeAtIssue whether that user was active when the tokens were
\* signed.
IdleSession ==
  [pc |-> "idle", op |-> "", email |-> "", passwordValid |-> FALSE, seen |-> NoRecord,
   sent |-> NoAuthHeader, activeAtIssue |-> TRUE, res |-> NoAuthRes,
   access |-> NoToken, refresh |-> NoToken, loggedIn |-> ""]

(***************************************************************************)
(* Records with a unique field: users by email, product variants by SKU    *)
(***************************************************************************)
MaxUniqueOps == 3

Entities == {"user", "variant"}
UniqueKeys == {"k1", "k2"}
UniqueCallers == {"p1", "p2"}
RowIds == 1..MaxUniqueOps

UniqueRow(id, key) == [id |-> id, key |-> key]

\* findUnique by the unique field: is there such a record
KeyInUse(table, key) == \E r \in table : r.key = key

NextRowId(table) == Cardinality(table) + 1

NoUniqueRes == [status |-> 0, message |-> ""]

\* a table without the unique index: every create and update is accepted
DbWriteNoUniqueIndex(table, id, key) ==
  [ok |-> TRUE, table |-> {r \in table : r.id # id} \cup {UniqueRow(id, key)}]

\* prisma create / update on a table whose field is unique: the write is
\* refused (PrismaClientKnownRequestError) when another record has the key
DbWrite(table, id, key) ==
  IF \E r \in table : r.key = key /\ r.id # id
    THEN [ok |-> FALSE, table |-> table]
    ELSE [ok |-> TRUE, table |-> {r \in table : r.id # id} \cup {UniqueRow(id, key)}]

\* The message of the AppError each service throws for a key in use
InUseMessage(op) ==
  IF op = "register" THEN "User with this email already exists" ELSE "SKU already exists"

EntityOf(op) == IF op = "register" THEN "user" ELSE "variant"

\* The status and message errorHandler answers with
errorHandlerStatus(err) ==
  LET e == errorHandler(err, nodeEnv) IN [status |-> e.status, message |-> e.message]

IdleUnique ==
  [op |-> "", key |-> "", id |-> 0, pc |-> "idle", res |-> NoUniqueRes, sawFree |-> FALSE]

(***************************************************************************)
(* CartService: the cart of one session and one product variant           *)
(***************************************************************************)
MaxCartOps == 3
MaxStock == 2
MaxQuantity == 3

CartCallers == {"p1", "p2"}
\* "v1" is the product variant; no variant has the id "v0"
VariantIds == {"v1", "v0"}
ItemIds == 1..MaxCartOps
Quantities == 1..MaxQuantity

NoCart == [exists |-> FALSE, items |-> {}]

CartItem(id, variant, quantity) == [id |-> id, variant |-> variant, quantity |-> quantity]

NoItem == CartItem(0, "", 0)

\* prisma.cartItem.findFirst({ where: { cartId, productVariantId } }): any
\* one of the matching items
FindFirstItems(items, variant) ==
  IF \E i \in items : i.variant = variant THEN {i \in items : i.variant = variant}
  ELSE {NoItem}

\* prisma.cartItem.findUnique({ where: { id } })
FindItem(items, id) ==
  IF \E i \in items : i.id = id THEN CHOOSE i \in items : i.id = id ELSE NoItem

NextItemId(items) ==
  IF items = {} THEN 1 ELSE 1 + CHOOSE n \in ItemIds : (\E i \in items : i.id = n)
                                     /\ \A i \in items : i.id <= n

\* What a call goes on to do after its checks: answer with an error, or
\* write (create, update, delete, deleteMany) and answer
NoPlan == [status |-> 0, message |-> "", write |-> "", id |-> 0, quantity |-> 0]
Fail(status, message) == [NoPlan EXCEPT !.status = status, !.message = message]
Write(kind, id, quantity) == [NoPlan EXCEPT !.write = kind, !.id = id, !.quantity = quantity]

\* addItem that checks the stock of the new quantity after the update
addItemPlanChecksAfterUpdate(variantExists, stockQuantity, existingItem, quantity) ==
  IF ~variantExists THEN Fail(404, "Product variant not found")
  ELSE IF stockQuantity < quantity THEN Fail(400, "Insufficient stock")
  ELSE IF existingItem # NoItem
    THEN IF stockQuantity < existingItem.quantity + quantity
           THEN [Write("update", existingItem.id, existingItem.quantity + quantity)
                   EXCEPT !.status = 400, !.message = "Insufficient stock"]
           ELSE Write("update", existingItem.id, existingItem.quantity + quantity)
  ELSE Write("create", 0, quantity)

\* addItem after getOrCreateCart, up to its write
addItemPlan(variantExists, stockQuantity, existingItem, quantity) ==
  IF ~variantExists THEN Fail(404, "Product variant not found")
  ELSE IF stockQuantity < quantity THEN Fail(400, "Insufficient stock")
  ELSE IF existingItem # NoItem
    THEN IF stockQuantity < existingItem.quantity + quantity
           THEN Fail(400, "Insufficient stock")
           ELSE Write("update", existingItem.id, existingItem.quantity + quantity)
  ELSE Write("create", 0, quantity)

\* updateItemQuantity up to its write
updateItemQuantityPlan(item, stockQuantity, quantity) ==
  IF item = NoItem THEN Fail(404, "Cart item not found")
  ELSE IF stockQuantity < quantity THEN Fail(400, "Insufficient stock")
  ELSE Write("update", item.id, quantity)

\* removeItem up to its write
removeItemPlan(item) ==
  IF item = NoItem THEN Fail(404, "Cart item not found") ELSE Write("delete", item.id, 0)

\* clearCart up to its write
clearCartPlan(cartExists) ==
  IF ~cartExists THEN Fail(404, "Cart not found") ELSE Write("deleteMany", 0, 0)

\* The database applies a write; update and delete of an item that is gone
\* fail (PrismaClientKnownRequestError)
ApplyWrite(items, w, variant) ==
  CASE w.write = "create" ->
         [ok |-> TRUE, items |-> items \cup {CartItem(NextItemId(items), variant, w.quantity)}]
    [] w.write = "update" ->
         IF FindItem(items, w.id) = NoItem THEN [ok |-> FALSE, items |-> items]
         ELSE [ok |-> TRUE,
               items |-> {IF i.id = w.id THEN [i EXCEPT !.quantity = w.quantity] ELSE i :
                            i \in items}]
    [] w.write = "delete" ->
         IF FindItem(items, w.id) = NoItem THEN [ok |-> FALSE, items |-> items]
         ELSE [ok |-> TRUE, items |-> {i \in items : i.id # w.id}]
    [] w.write = "deleteMany" -> [ok |-> TRUE, items |-> {}]

IdleCartCall ==
  [op |-> "", variant |-> "", quantity |-> 0, pc |-> "idle", plan |-> NoPlan,
   status |-> 0, message |-> ""]

(***************************************************************************)
(* NewsletterService: the subscriber record of one email                   *)
(***************************************************************************)
MaxNewsOps == 3

NewsCallers == {"p1", "p2"}

NoSubscriber == [status |-> "none", unsubscribedAt |-> FALSE]

\* subscribe, from the record found: the error thrown, or the write to make
subscribePlan(existing) ==
  IF existing.status = "ACTIVE"
    THEN [status |-> 400, message |-> "Email is already subscribed", write |-> ""]
  ELSE IF existing.status = "none"
    THEN [status |-> 0, message |-> "", write |-> "create"]
  ELSE [status |-> 0, message |-> "", write |-> "resubscribe"]

\* unsubscribe, from the record found
unsubscribePlan(subscriber) ==
  IF subscriber.status = "none"
    THEN [status |-> 404, message |-> "Email not found in subscription list", write |-> ""]
  ELSE IF subscriber.status = "UNSUBSCRIBED"
    THEN [status |-> 400, message |-> "Email is already unsubscribed", write |-> ""]
  ELSE [status |-> 0, message |-> "", write |-> "unsubscribe"]

\* prisma.newsletterSubscriber create / update by email; email is unique, so
\* a second create is refused, and so is an update of a missing record
SubscriberWrite(record, write) ==
  CASE write = "create" ->
         IF record.status # "none" THEN [ok |-> FALSE, record |-> record]
         ELSE [ok |-> TRUE, record |-> [status |-> "ACTIVE", unsubscribedAt |-> FALSE]]
    [] write = "resubscribe" ->
         IF record.status = "none" THEN [ok |-> FALSE, record |-> record]
         ELSE [ok |-> TRUE, record |-> [status |-> "ACTIVE", unsubscribedAt |-> FALSE]]
    [] write = "unsubscribe" ->
         IF record.status = "none" THEN [ok |-> FALSE, record |-> record]
         ELSE [ok |-> TRUE, record |-> [status |-> "UNSUBSCRIBED", unsubscribedAt |-> TRUE]]

IdleNewsCall ==
  [op |-> "", pc |-> "idle", seen |-> NoSubscriber, write |-> "", status |-> 0, message |-> ""]

(***************************************************************************)
(* Slugs: generateSlug, generateSlugWithCounter and the services' loop     *)
(***************************************************************************)
MaxArticles == 3

\* Titles, as text over letters, space, dash, digit and punctuation
SlugTitles ==
  {<<"a">>, <<"A">>, <<"b">>, <<" ", "a", " ">>, <<"a", "!">>, <<"a", " ", "1">>,
   <<"a", "-", "-", "1">>, <<"!">>}

\* toLowerCase()
LowerChar(c) == IF c = "A" THEN "a" ELSE c
ToLowerCase(t) == [i \in 1..Len(t) |-> LowerChar(t[i])]

\* replace(/\s+/g, '-'): every run of spaces becomes one dash
RECURSIVE SpacesToDash(_)
SpacesToDash(t) ==
  IF t = <<>> THEN <<>>
  ELSE IF Head(t) = " " THEN <<"-">> \o SpacesToDash(TrimLeft(t))
  ELSE <<Head(t)>> \o SpacesToDash(Tail(t))

\* replace(/[^\w\-]+/g, ''): only letters, digits, underscore and dash stay
IsWordOrDash(c) == c \in {"a", "A", "b", "1", "2", "3", "4", "5", "6", "7", "8", "9", "0", "_", "-"}
RemoveNonWord(t) == SelectSeq(t, IsWordOrDash)

\* replace(/\-\-+/g, '-'): every run of dashes becomes one dash
RECURSIVE CollapseDashes(_)
CollapseDashes(t) ==
  IF Len(t) < 2 THEN t
  ELSE IF t[1] = "-" /\ t[2] = "-" THEN CollapseDashes(Tail(t))
  ELSE <<Head(t)>> \o CollapseDashes(Tail(t))

\* replace(/^-+/, '') and replace(/-+$/, '')
RECURSIVE StripLeadingDashes(_)
StripLeadingDashes(t) ==
  IF t # <<>> /\ Head(t) = "-" THEN StripLeadingDashes(Tail(t)) ELSE t
RECURSIVE StripTrailingDashes(_)
StripTrailingDashes(t) ==
  IF t # <<>> /\ t[Len(t)] = "-" THEN StripTrailingDashes(SubSeq(t, 1, Len(t) - 1)) ELSE t

\* generateSlug(text)
generateSlug(text) ==
  StripTrailingDashes(StripLeadingDashes(CollapseDashes(RemoveNonWord(
    SpacesToDash(Trim(ToLowerCase(text)))))))

\* `${counter}`: the decimal digits of a number
DigitChar(d) ==
  CASE d = 0 -> "0" [] d = 1 -> "1" [] d = 2 -> "2" [] d = 3 -> "3" [] d = 4 -> "4"
    [] d = 5 -> "5" [] d = 6 -> "6" [] d = 7 -> "7" [] d = 8 -> "8" [] d = 9 -> "9"

RECURSIVE ToDecimal(_)
ToDecimal(n) ==
  IF n < 10 THEN <<DigitChar(n)>> ELSE ToDecimal(n \div 10) \o <<DigitChar(n % 10)>>

\* generateSlugWithCounter(text, counter)
generateSlugWithCounter(text, counter) ==
  IF counter > 0 THEN generateSlug(text) \o <<"-">> \o ToDecimal(counter)
  ELSE generateSlug(text)

\* The loop of createArticle / updateArticle: counter goes up until the slug
\* is found on no record looked at
RECURSIVE SlugLoop(_, _, _)
SlugLoop(title, counter, taken) ==
  LET slug == IF counter = 0 THEN generateSlug(title)
              ELSE generateSlugWithCounter(title, counter)
  IN IF slug \in taken THEN SlugLoop(title, counter + 1, taken) ELSE slug

AllSlugs(records) == {records[i].slug : i \in 1..Len(records)}

\* the lookup of updateArticle without NOT: { id }
SlugsOfOthersWithSelf(records, id) == AllSlugs(records)

\* findFirst({ where: { slug, NOT: { id } } }): the slugs of the other records
SlugsOfOthers(records, id) == {records[i].slug : i \in (1..Len(records)) \ {id}}

NoTitle == <<"absent">>

NoSlugCall == [op |-> "", id |-> 0, title |-> NoTitle, before |-> <<>>]

(***************************************************************************)
(* Site settings                                                           *)
(***************************************************************************)
MaxSettingOps == 3

SETTING_KEYS ==
  {"article_categories", "contact_categories", "event_types", "site_name",
   "site_description", "social_links"}

\* the order of Object.entries(DEFAULT_SETTINGS)
DefaultKeyOrder ==
  <<"article_categories", "contact_categories", "event_types", "site_name",
    "site_description", "social_links">>

DEFAULT_SETTINGS ==
  [k \in SETTING_KEYS |->
     CASE k = "article_categories" ->
            [value |-> "[\"Music\",\"Culture\",\"Lifestyle\",\"Events\"]", type |-> "json",
             description |-> "Categories available for editorial articles"]
       [] k = "contact_categories" ->
            [value |-> "[\"General\",\"Artist\",\"DJ\",\"Designer\",\"Partnership\",\"Press\"]",
             type |-> "json", description |-> "Categories/types for contact form submissions"]
       [] k = "event_types" ->
            [value |-> "[\"Concert\",\"Festival\",\"Club Night\",\"Pop-up\",\"Exhibition\",\"Workshop\"]",
             type |-> "json", description |-> "Types of events"]
       [] k = "site_name" ->
            [value |-> "Mutuals+", type |-> "text", description |-> "Site name"]
       [] k = "site_description" ->
            [value |-> "Culture, curated.", type |-> "text",
             description |-> "Site tagline/description"]
       [] k = "social_links" ->
            [value |-> "{\"instagram\":\"https://instagram.com/mutualsplus\",\"twitter\":\"https://twitter.com/mutualsplus\"}",
             type |-> "json", description |-> "Social media links"]]

\* the keys a caller may name: the defaults and one of its own
SettingKeyNames == SETTING_KEYS \cup {"custom_key"}

NoSetting == [value |-> "", type |-> "none", description |-> ""]

\* what updateSetting is called with: a string or an object as value, and
\* optionally a type and a description ("" when left out)
SettingValues == {[isObject |-> FALSE, text |-> "Other"], [isObject |-> TRUE, text |-> "{}"]}
SettingTypes == {"", "json", "text"}
SettingDescriptions == {"", "Changed"}

\* one round of the loop, as an upsert: an existing setting is overwritten
initializeOneOverwrites(table, key) ==
  [table EXCEPT ![key] = DEFAULT_SETTINGS[key]]

\* one round of the loop of initializeDefaults: findUnique, create if absent
initializeOne(table, key) ==
  LET existing == table[key] IN
    IF existing = NoSetting THEN [table EXCEPT ![key] = DEFAULT_SETTINGS[key]]
    ELSE table

\* initializeDefaults: the loop over Object.entries(DEFAULT_SETTINGS)
RECURSIVE initializeDefaultsFrom(_, _)
initializeDefaultsFrom(table, i) ==
  IF i > Len(DefaultKeyOrder) THEN table
  ELSE initializeDefaultsFrom(initializeOne(table, DefaultKeyOrder[i]), i + 1)

\* updateSetting(key, value, type, description)
updateSettingResult(table, key, value, type, description) ==
  LET existing == table[key]
      valueString == value.text
      inferredType == IF type # "" THEN type ELSE IF value.isObject THEN "json" ELSE "text"
  IN IF existing # NoSetting
       THEN [table EXCEPT ![key] =
               [value |-> valueString,
                type |-> IF type # "" THEN type ELSE existing.type,
                description |-> IF description # "" THEN description ELSE existing.description]]
       ELSE [table EXCEPT ![key] =
               [value |-> valueString, type |-> inferredType, description |-> description]]

NoSettingsCall ==
  [op |-> "", prev |-> "", n |-> 0, before |-> [k \in SettingKeyNames |-> NoSetting]]

SettingsCall(op) ==
  [op |-> op, prev |-> lastSet.op, n |-> lastSet.n + 1, before |-> settings]

(***************************************************************************)
(* Hero slides: reorderSlides                                              *)
(***************************************************************************)
MaxSlideOrders == 2
MaxReorders == 2
MaxOrder == 2

SlideIds == {"s1", "s2", "s3"}

NoSlide == [exists |-> FALSE, order |-> 0]
Slide(order) == [exists |-> TRUE, order |-> order]

\* An entry of slideOrders that passed reorderSlidesValidator: an id and an
\* order that isInt({ min: 0 }) accepts, sent as a JSON number or as a
\* string of digits (the validator does not convert it)
SlideOrderItems ==
  [id : SlideIds, order : 0..MaxOrder, asString : BOOLEAN]

\* slideOrders: isArray({ min: 1 })
SlideOrderLists == SeqsUpTo(SlideOrderItems, MaxSlideOrders) \ {<<>>}

\* prisma.homepageHeroSlide.update({ where: { id }, data: { order } }): it
\* throws when no row has the id or when order is not an Int
SlideUpdateFails(table, item) == ~table[item.id].exists \/ item.asString

SlideUpdate(table, item) == [table EXCEPT ![item.id].order = item.order]

\* the updates one after another, stopping at the first that throws
RECURSIVE RunSlideUpdates(_, _, _)
RunSlideUpdates(table, list, i) ==
  IF i > Len(list) THEN [failed |-> FALSE, table |-> table]
  ELSE IF SlideUpdateFails(table, list[i]) THEN [failed |-> TRUE, table |-> table]
  ELSE RunSlideUpdates(SlideUpdate(table, list[i]), list, i + 1)

\* the updates without a transaction around them: what was written stays
transactionNoRollback(table, list) == RunSlideUpdates(table, list, 1)

\* prisma.$transaction([...]): all the updates, or none when one throws
transaction(table, list) ==
  LET run == RunSlideUpdates(table, list, 1) IN
    IF run.failed THEN [failed |-> TRUE, table |-> table] ELSE run

NoReorder ==
  [list |-> <<>>, failed |-> FALSE, n |-> 0, before |-> [s \in SlideIds |-> NoSlide]]

(***************************************************************************)
(* The services at rest                                                    *)
(***************************************************************************)
SvcQuiet ==
  /\ mail = IdleMail
  /\ users = AllUsersActive
  /\ sess = [c \in AuthClients |-> IdleSession]
  /\ authOps = 0
  /\ rows = [e \in Entities |-> {}]
  /\ up = [p \in UniqueCallers |-> IdleUnique]
  /\ uniqueOps = 0
  /\ cart = NoCart
  /\ stock = 0
  /\ cp = [p \in CartCallers |-> IdleCartCall]
  /\ cartOps = 0
  /\ news = NoSubscriber
  /\ np = [p \in NewsCallers |-> IdleNewsCall]
  /\ successes = <<>>
  /\ arts = <<>>
  /\ lastSlug = NoSlugCall
  /\ settings = [k \in SettingKeyNames |-> NoSetting]
  /\ lastSet = NoSettingsCall
  /\ slides = [s \in SlideIds |-> NoSlide]
  /\ lastReorder = NoReorder

\* Each service with all the others at rest
mailRestQuiet ==
  /\ users = AllUsersActive
  /\ sess = [c \in AuthClients |-> IdleSession]
  /\ authOps = 0
  /\ rows = [e \in Entities |-> {}]
  /\ up = [p \in UniqueCallers |-> IdleUnique]
  /\ uniqueOps = 0
  /\ cart = NoCart
  /\ stock = 0
  /\ cp = [p \in CartCallers |-> IdleCartCall]
  /\ cartOps = 0
  /\ news = NoSubscriber
  /\ np = [p \in NewsCallers |-> IdleNewsCall]
  /\ successes = <<>>
  /\ arts = <<>>
  /\ lastSlug = NoSlugCall
  /\ settings = [k \in SettingKeyNames |-> NoSetting]
  /\ lastSet = NoSettingsCall
  /\ slides = [s \in SlideIds |-> NoSlide]
  /\ lastReorder = NoReorder

authRestQuiet ==
  /\ mail = IdleMail
  /\ rows = [e \in Entities |-> {}]
  /\ up = [p \in UniqueCallers |-> IdleUnique]
  /\ uniqueOps = 0
  /\ cart = NoCart
  /\ stock = 0
  /\ cp = [p \in CartCallers |-> IdleCartCall]
  /\ cartOps = 0
  /\ news = NoSubscriber
  /\ np = [p \in NewsCallers |-> IdleNewsCall]
  /\ successes = <<>>
  /\ arts = <<>>
  /\ lastSlug = NoSlugCall
  /\ settings = [k \in SettingKeyNames |-> NoSetting]
  /\ lastSet = NoSettingsCall
  /\ slides = [s \in SlideIds |-> NoSlide]
  /\ lastReorder = NoReorder

uniqRestQuiet ==
  /\ mail = IdleMail
  /\ users = AllUsersActive
  /\ sess = [c \in AuthClients |-> IdleSession]
  /\ authOps = 0
  /\ cart = NoCart
  /\ stock = 0
  /\ cp = [p \in CartCallers |-> IdleCartCall]
  /\ cartOps = 0
  /\ news = NoSubscriber
  /\ np = [p \in NewsCallers |-> IdleNewsCall]
  /\ successes = <<>>
  /\ arts = <<>>
  /\ lastSlug = NoSlugCall
  /\ settings = [k \in SettingKeyNames |-> NoSetting]
  /\ lastSet = NoSettingsCall
  /\ slides = [s \in SlideIds |-> NoSlide]
  /\ lastReorder = NoReorder

cartRestQuiet ==
  /\ mail = IdleMail
  /\ users = AllUsersActive
  /\ sess = [c \in AuthClients |-> IdleSession]
  /\ authOps = 0
  /\ rows = [e \in Entities |-> {}]
  /\ up = [p \in UniqueCallers |-> IdleUnique]
  /\ uniqueOps = 0
  /\ news = NoSubscriber
  /\ np = [p \in NewsCallers |-> IdleNewsCall]
  /\ successes = <<>>
  /\ arts = <<>>
  /\ lastSlug = NoSlugCall
  /\ settings = [k \in SettingKeyNames |-> NoSetting]
  /\ lastSet = NoSettingsCall
  /\ slides = [s \in SlideIds |-> NoSlide]
  /\ lastReorder = NoReorder

newsRestQuiet ==
  /\ mail = IdleMail
  /\ users = AllUsersActive
  /\ sess = [c \in AuthClients |-> IdleSession]
  /\ authOps = 0
  /\ rows = [e \in Entities |-> {}]
  /\ up = [p \in UniqueCallers |-> IdleUnique]
  /\ uniqueOps = 0
  /\ cart = NoCart
  /\ stock = 0
  /\ cp = [p \in CartCallers |-> IdleCartCall]
  /\ cartOps = 0
  /\ arts = <<>>
  /\ lastSlug = NoSlugCall
  /\ settings = [k \in SettingKeyNames |-> NoSetting]
  /\ lastSet = NoSettingsCall
  /\ slides = [s \in SlideIds |-> NoSlide]
  /\ lastReorder = NoReorder

slugRestQuiet ==
  /\ mail = IdleMail
  /\ users = AllUsersActive
  /\ sess = [c \in AuthClients |-> IdleSession]
  /\ authOps = 0
  /\ rows = [e \in Entities |-> {}]
  /\ up = [p \in UniqueCallers |-> IdleUnique]
  /\ uniqueOps = 0
  /\ cart = NoCart
  /\ stock = 0
  /\ cp = [p \in CartCallers |-> IdleCartCall]
  /\ cartOps = 0
  /\ news = NoSubscriber
  /\ np = [p \in NewsCallers |-> IdleNewsCall]
  /\ successes = <<>>
  /\ settings = [k \in SettingKeyNames |-> NoSetting]
  /\ lastSet = NoSettingsCall
  /\ slides = [s \in SlideIds |-> NoSlide]
  /\ lastReorder = NoReorder

settingsRestQuiet ==
  /\ mail = IdleMail
  /\ users = AllUsersActive
  /\ sess = [c \in AuthClients |-> IdleSession]
  /\ authOps = 0
  /\ rows = [e \in Entities |-> {}]
  /\ up = [p \in UniqueCallers |-> IdleUnique]
  /\ uniqueOps = 0
  /\ cart = NoCart
  /\ stock = 0
  /\ cp = [p \in CartCallers |-> IdleCartCall]
  /\ cartOps = 0
  /\ news = NoSubscriber
  /\ np = [p \in NewsCallers |-> IdleNewsCall]
  /\ successes = <<>>
  /\ arts = <<>>
  /\ lastSlug = NoSlugCall
  /\ slides = [s \in SlideIds |-> NoSlide]
  /\ lastReorder = NoReorder

slidesRestQuiet ==
  /\ mail = IdleMail
  /\ users = AllUsersActive
  /\ sess = [c \in AuthClients |-> IdleSession]
  /\ authOps = 0
  /\ rows = [e \in Entities |-> {}]
  /\ up = [p \in UniqueCallers |-> IdleUnique]
  /\ uniqueOps = 0
  /\ cart = NoCart
  /\ stock = 0
  /\ cp = [p \in CartCallers |-> IdleCartCall]
  /\ cartOps = 0
  /\ news = NoSubscriber
  /\ np = [p \in NewsCallers |-> IdleNewsCall]
  /\ successes = <<>>
  /\ arts = <<>>
  /\ lastSlug = NoSlugCall
  /\ settings = [k \in SettingKeyNames |-> NoSetting]
  /\ lastSet = NoSettingsCall

Init ==
  /\ nodeEnv \in {"development", "production"}
  /\ req = IdleReq
  /\ redisClient = "ready"
  /\ CacheQuiet
  /\ LimitQuiet
  /\ PageQuiet
  /\ AsyncQuiet
  /\ SvcQuiet

Next ==
  \/ Receive
  \/ Discard
  \/ RateLimit
  \/ Authenticate
  \/ Authorize
  \/ Validators
  \/ Validate
  \/ Upload
  \/ Controller

Spec == Init /\ [][Next]_vars

(***************************************************************************)
(* authorize on its own: any identity (or none) against any permitted set  *)
(***************************************************************************)
Identities == {TokenClaims(t) : t \in GoodTokens}

InitAuthorize ==
  /\ nodeEnv \in {"development", "production"}
  /\ \E user \in Identities \cup {NoUser}, roles \in SUBSET UserRole :
       req = NewReq("authorize", <<StAuthorize(roles), StController>>, NoHeader, EmptyBody,
                   user)
  /\ redisClient = "ready"
  /\ CacheQuiet
  /\ LimitQuiet
  /\ PageQuiet
  /\ AsyncQuiet
  /\ SvcQuiet

NextAuthorize ==
  \/ Authorize
  \/ Controller

SpecAuthorize == InitAuthorize /\ [][NextAuthorize]_vars

(***************************************************************************)
(* The validation gate on its own: any body on any validated route         *)
(***************************************************************************)
ValidatedRoutes == {r \in RouteNames : RouteValidators(r) # <<>>}

InitValidate ==
  /\ nodeEnv \in {"development", "production"}
  /\ \E route \in ValidatedRoutes, body \in Bodies :
       req = NewReq(route, <<StValidators, StValidate, StController>>, NoHeader, body, NoUser)
  /\ redisClient = "ready"
  /\ CacheQuiet
  /\ LimitQuiet
  /\ PageQuiet
  /\ AsyncQuiet
  /\ SvcQuiet

NextValidate ==
  \/ Validators
  \/ Validate
  \/ Controller

SpecValidate == InitValidate /\ [][NextValidate]_vars

(***************************************************************************)
(* Requests through cacheMiddleware, clearCacheMiddleware and getOrSet.    *)
(* All Redis commands travel over the one connection of the client and are *)
(* served in the order sent, so a command takes effect when it is sent;    *)
(* the code awaiting its reply resumes in a later step.                    *)
(***************************************************************************)
MayFail == IF redisClient = "ready" THEN {FALSE, TRUE} ELSE {FALSE}

\* The data a GET handler reads for a URL: only articles are ever written.
DataVersion(url) == IF url = <<"/articles">> THEN db ELSE 0

\* cacheMiddleware(ttl), a GET arrives: CacheService.get(cacheKey) is sent
GetLookup(c) ==
  /\ cl[c].pc = "idle" /\ started < MaxRequests
  /\ \E url \in Urls, fails \in MayFail :
       LET key == CacheKey(url) IN
       cl' = [cl EXCEPT ![c] =
               [IdleClient EXCEPT !.kind = "GET", !.url = url, !.key = key, !.pc = "lookup",
                  !.cached = CacheServiceGet(redisClient, store, key, fails),
                  !.seen = store[key],
                  !.lookupFailed = (redisClient = "null" \/ fails),
                  !.seenAck = acked]]
  /\ started' = started + 1
  /\ UNCHANGED <<gateVars, limitVars, pageVars, asyncVars, redisClient, store, db, acked, tasks, svcVars>>

\* cacheMiddleware after the lookup: answer from the cache, or override
\* res.json and call next()
GetContinue(c) ==
  /\ cl[c].kind = "GET" /\ cl[c].pc = "lookup"
  /\ IF cl[c].cached # Null
       THEN cl' = [cl EXCEPT ![c].pc = "done", ![c].res = CachedResponse(cl[c].cached)]
       ELSE cl' = [cl EXCEPT ![c].pc = "handler"]
  /\ UNCHANGED <<gateVars, limitVars, pageVars, asyncVars, redisClient, store, db, acked, started, tasks, svcVars>>

\* The GET handler queries the data; a failure goes to errorHandler.
HandlerRead(c) ==
  /\ cl[c].kind = "GET" /\ cl[c].pc = "handler"
  /\ \E out \in {"ok", "notFound"} :
       LET e == errorHandler(AppError("Not found", 404), nodeEnv) IN
       cl' = [cl EXCEPT ![c].pc = "respond", ![c].runs = @ + 1,
                ![c].status = IF out = "ok" THEN 200 ELSE e.status,
                ![c].body = IF out = "ok" THEN OkBody(DataVersion(cl[c].url))
                            ELSE ErrBody(e.message)]
  /\ UNCHANGED <<gateVars, limitVars, pageVars, asyncVars, redisClient, store, db, acked, started, tasks, svcVars>>

\* res.json as overridden by cacheMiddleware: CacheService.set is fired, then
\* the original res.json sends the body
GetRespond(c) ==
  /\ cl[c].kind = "GET" /\ cl[c].pc = "respond"
  /\ \E fails \in MayFail :
       LET failed == (redisClient = "null" \/ fails)
           sent == JsonResponse(cl[c].status, cl[c].body, failed)
       IN /\ store' = CacheServiceSet(redisClient, store, cl[c].key, cl[c].body, CacheTtl,
                                      fails, sent.wire, cl[c].url)
          /\ cl' = [cl EXCEPT ![c].pc = "done", ![c].res = sent]
  /\ UNCHANGED <<gateVars, limitVars, pageVars, asyncVars, redisClient, db, acked, started, tasks, svcVars>>

\* A write arrives: clearCacheMiddleware overrides res.json and calls next();
\* the handler updates the articles or fails (validation, 404).
WriteHandler(c) ==
  /\ cl[c].pc = "idle" /\ started < MaxRequests
  /\ \E out \in {"ok", "invalid", "notFound"} :
       /\ out = "ok" => db < MaxWrites
       /\ db' = IF out = "ok" THEN db + 1 ELSE db
       /\ cl' = [cl EXCEPT ![c] =
                  [IdleClient EXCEPT !.kind = "WRITE", !.url = <<"/articles", "/1">>,
                     !.pc = "respond", !.runs = 1, !.seenAck = acked,
                     !.status = CASE out = "ok" -> 200
                                  [] out = "invalid" -> 400
                                  [] out = "notFound" -> 404,
                     !.body = CASE out = "ok" -> OkBody(db + 1)
                                [] out = "invalid" -> ErrBody("Validation failed")
                                [] out = "notFound" -> ErrBody("Not found")]]
  /\ started' = started + 1
  /\ UNCHANGED <<gateVars, limitVars, pageVars, asyncVars, redisClient, store, acked, tasks, svcVars>>

\* res.json as overridden by clearCacheMiddleware: on a 2xx status each
\* pattern's deletePattern is fired (KEYS is sent), then the body is sent
WriteRespond(c) ==
  /\ cl[c].kind = "WRITE" /\ cl[c].pc = "respond"
  /\ \E fails \in [1..Len(ArticlePatterns) -> MayFail] :
       LET clearing == IsSuccessStatus(cl[c].status)
           failed == clearing /\ (redisClient = "null" \/ \E i \in DOMAIN fails : fails[i])
           found == [i \in 1..Len(ArticlePatterns) |->
                      DeletePatternKeys(redisClient, store, ArticlePatterns[i], fails[i])]
       IN /\ tasks' = IF clearing
                        THEN tasks \cup {[rid |-> started, pat |-> i, keys |-> found[i]] :
                                           i \in {j \in 1..Len(ArticlePatterns) : found[j] # {}}}
                        ELSE tasks
          /\ cl' = [cl EXCEPT ![c].pc = "done",
                      ![c].res = JsonResponse(cl[c].status, cl[c].body, failed)]
          /\ acked' = IF cl[c].status = 200 /\ cl[c].body.data.ver > acked
                        THEN cl[c].body.data.ver ELSE acked
  /\ UNCHANGED <<gateVars, limitVars, pageVars, asyncVars, redisClient, store, db, started, svcVars>>

\* deletePattern resumes with the reply to KEYS and sends DEL for those keys
DeleteKeys ==
  /\ \E t \in tasks, fails \in MayFail :
       /\ store' = DeletePatternDel(store, t.keys, fails)
       /\ tasks' = tasks \ {t}
  /\ UNCHANGED <<gateVars, limitVars, pageVars, asyncVars, redisClient, db, acked, started, cl, svcVars>>

\* CacheService.getOrSet(key, fetchFunction, ttl): this.get(key) is sent
SvcLookup(c) ==
  /\ cl[c].pc = "idle" /\ started < MaxRequests
  /\ \E fails \in MayFail :
       cl' = [cl EXCEPT ![c] =
               [IdleClient EXCEPT !.kind = "SVC", !.url = <<"/articles">>, !.key = ServiceKey,
                  !.pc = "lookup",
                  !.cached = CacheServiceGet(redisClient, store, ServiceKey, fails),
                  !.seen = store[ServiceKey],
                  !.lookupFailed = (redisClient = "null" \/ fails),
                  !.seenAck = acked]]
  /\ started' = started + 1
  /\ UNCHANGED <<gateVars, limitVars, pageVars, asyncVars, redisClient, store, db, acked, tasks, svcVars>>

\* getOrSet after the lookup: return the cached value, or call fetchFunction
SvcContinue(c) ==
  /\ cl[c].kind = "SVC" /\ cl[c].pc = "lookup"
  /\ IF cl[c].cached # Null
       THEN cl' = [cl EXCEPT ![c].pc = "done",
                     ![c].res = [status |-> 200, wire |-> <<"value", cl[c].cached>>,
                                 from |-> "cache"]]
       ELSE cl' = [cl EXCEPT ![c].pc = "handler"]
  /\ UNCHANGED <<gateVars, limitVars, pageVars, asyncVars, redisClient, store, db, acked, started, tasks, svcVars>>

\* fetchFunction reads the data; if it throws, getOrSet throws and sets nothing
SvcFetch(c) ==
  /\ cl[c].kind = "SVC" /\ cl[c].pc = "handler"
  /\ \/ cl' = [cl EXCEPT ![c].pc = "respond", ![c].runs = @ + 1, ![c].status = 200,
                 ![c].body = OkBody(db)]
     \/ cl' = [cl EXCEPT ![c].pc = "done", ![c].runs = @ + 1, ![c].status = 404,
                 ![c].body = ErrBody("Not found"),
                 ![c].res = [status |-> 404, wire |-> <<"value", ErrBody("Not found")>>,
                             from |-> "handler"]]
  /\ UNCHANGED <<gateVars, limitVars, pageVars, asyncVars, redisClient, store, db, acked, started, tasks, svcVars>>

\* getOrSet stores the fetched data and returns it
SvcSet(c) ==
  /\ cl[c].kind = "SVC" /\ cl[c].pc = "respond"
  /\ \E fails \in MayFail :
       /\ store' = CacheServiceSet(redisClient, store, ServiceKey, cl[c].body, ServiceTtl,
                                   fails, Stringify(cl[c].body), cl[c].url)
       /\ cl' = [cl EXCEPT ![c].pc = "done",
                   ![c].res = [status |-> 200, wire |-> <<"value", cl[c].body>>,
                               from |-> "handler"]]
  /\ UNCHANGED <<gateVars, limitVars, pageVars, asyncVars, redisClient, db, acked, started, tasks, svcVars>>

\* The exchange is over; the connection is free for the next request.
Release(c) ==
  /\ cl[c].pc = "done"
  /\ cl' = [cl EXCEPT ![c] = IdleClient]
  /\ UNCHANGED <<gateVars, limitVars, pageVars, asyncVars, redisClient, store, db, acked, started, tasks, svcVars>>

Tick ==
  /\ store' = RedisSecond(store)
  /\ UNCHANGED <<gateVars, limitVars, pageVars, asyncVars, redisClient, db, acked, started, cl, tasks, svcVars>>

InitCache ==
  /\ nodeEnv = "production"
  /\ req = IdleReq
  /\ redisClient \in {"null", "ready"}
  /\ CacheQuiet
  /\ LimitQuiet
  /\ PageQuiet
  /\ AsyncQuiet
  /\ SvcQuiet

NextCache ==
  \/ \E c \in Clients : GetLookup(c)
  \/ \E c \in Clients : GetContinue(c)
  \/ \E c \in Clients : HandlerRead(c)
  \/ \E c \in Clients : GetRespond(c)
  \/ \E c \in Clients : WriteHandler(c)
  \/ \E c \in Clients : WriteRespond(c)
  \/ DeleteKeys
  \/ \E c \in Clients : Release(c)
  \/ Tick

SpecCache == InitCache /\ [][NextCache]_vars

\* Entries and their expiry: GETs through cacheMiddleware beside callers of
\* CacheService.getOrSet.
NextTtl ==
  \/ \E c \in Clients : GetLookup(c)
  \/ \E c \in Clients : GetContinue(c)
  \/ \E c \in Clients : HandlerRead(c)
  \/ \E c \in Clients : GetRespond(c)
  \/ \E c \in Clients : SvcLookup(c)
  \/ \E c \in Clients : SvcContinue(c)
  \/ \E c \in Clients : SvcFetch(c)
  \/ \E c \in Clients : SvcSet(c)
  \/ \E c \in Clients : Release(c)
  \/ Tick

SpecTtl == InitCache /\ [][NextTtl]_vars

(***************************************************************************)
(* Concurrent requests through the rate limiters                           *)
(***************************************************************************)
ConnStage(r) == Pipeline(r.route)[r.pc]
ConnInFlight(r) == r # NoConn /\ r.res = NoRes
JudgedNames(r) == {r.judged[i].name : i \in 1..Len(r.judged)}

\* The stores once the response of request r has gone out ('finish'): a
\* limiter with skipSuccessfulRequests takes its hit back if the request was
\* successful.
OnFinish(h, r, status) ==
  [key \in CounterKeys |->
     LET names == {n \in JudgedNames(r) : CounterKey(n, r.addr) = key} IN
     IF names = {} THEN h[key]
     ELSE LET h1 == IF RequestWasSuccessful(status) /\ names \cap r.listen # {}
                      THEN StoreDecrement(h[key]) ELSE h[key]
          IN IF status >= 400 /\ "authLimiter" \in names
               THEN [h1 EXCEPT !.failed = @ + 1] ELSE h1]

\* A rate limiter judging request r of connection k: increment the counter
\* of the address, register for the end of the response if successful
\* requests are skipped, then answer 429 or call next().
LimiterRun(k, r) ==
  LET name == ConnStage(r).name
      key == CounterKey(name, r.addr)
      inc == StoreIncrement(hits[key])
      pass == ~LimitExceeded(inc.count, LimiterMax(name))
      others == {o \in Conns \ {k} :
                   /\ ConnInFlight(conn[o]) /\ conn[o].addr = r.addr
                   /\ name \in JudgedNames(conn[o])}
      j == [name |-> name, n |-> inc.arrivals, hits |-> inc.count, pass |-> pass,
            failed |-> hits[key].failed, inflight |-> Cardinality(others)]
      r1 == [r EXCEPT !.judged = Append(@, j), !.ran = Append(@, name),
                      !.listen = IF SkipSuccessfulRequests(name) THEN @ \cup {name} ELSE @]
      h1 == [hits EXCEPT ![key] = inc]
  IN IF pass
       THEN /\ conn' = [conn EXCEPT ![k] = [r1 EXCEPT !.pc = @ + 1]]
            /\ hits' = h1
       ELSE /\ conn' = [conn EXCEPT ![k] = [r1 EXCEPT !.res = LimiterResponse(name)]]
            /\ hits' = OnFinish(h1, r1, 429)

\* A request from one of addrs for one of routes arrives under /api/v1 on
\* connection k: apiLimiter is the first to judge it.
Arrive(k, addrs, routes) ==
  /\ arrived < MaxArrivals
  /\ \E i \in 1..Len(ConnOrder) :
       /\ k = ConnOrder[i]
       /\ conn[k] = NoConn
       /\ \A j \in 1..(i - 1) : conn[ConnOrder[j]] # NoConn
  /\ \E a \in addrs, route \in routes :
       LimiterRun(k, [NoConn EXCEPT !.addr = a, !.route = route, !.pc = 1])
  /\ arrived' = arrived + 1
  /\ UNCHANGED <<gateVars, cacheVars, pageVars, asyncVars, svcVars>>

\* Requests to any route group, one after the other
ApiLimit(k) ==
  /\ \A o \in Conns : conn[o] = NoConn
  /\ Arrive(k, Addrs, LimitRoutes)

\* Requests of one client to the authentication endpoints, also while others
\* of its requests are in flight
ApiLimitAuth(k) == Arrive(k, {"ip1"}, AuthRoutes)

\* The limiter declared on the route
GroupLimit(k) ==
  /\ ConnInFlight(conn[k]) /\ ConnStage(conn[k]).kind = "limiter"
  /\ LimiterRun(k, conn[k])
  /\ UNCHANGED <<gateVars, cacheVars, pageVars, asyncVars, arrived, svcVars>>

\* What a gate answers when it turns the request down.
GateRejection(kind) ==
  CASE kind = "authenticate" -> errorHandler(AppError("No token provided", 401), nodeEnv)
    [] kind = "authorize" ->
         errorHandler(AppError("Not authorized to access this resource", 403), nodeEnv)
    [] kind = "validate" -> validateOutcome({<<"email", "isEmail">>})
    [] kind = "upload" -> errorHandler(AppError("File type is not allowed", 400), nodeEnv)

\* authenticate, authorize, the validators, validate and multer: the request
\* is handed on, or turned down (the validators only record).
GateStep(k) ==
  /\ ConnInFlight(conn[k])
  /\ ConnStage(conn[k]).kind \in {"authenticate", "authorize", "validators", "validate", "upload"}
  /\ LET r == conn[k]
         kind == ConnStage(r).kind
         r1 == [r EXCEPT !.ran = Append(@, kind)]
     IN \/ /\ conn' = [conn EXCEPT ![k] = [r1 EXCEPT !.pc = @ + 1]]
           /\ hits' = hits
        \/ /\ kind # "validators"
           /\ conn' = [conn EXCEPT ![k] = [r1 EXCEPT !.res = GateRejection(kind)]]
           /\ hits' = OnFinish(hits, r1, GateRejection(kind).status)
  /\ UNCHANGED <<gateVars, cacheVars, pageVars, asyncVars, arrived, svcVars>>

\* The controller answers: with success, or with an error (bad credentials).
HandlerStep(k) ==
  /\ ConnInFlight(conn[k]) /\ ConnStage(conn[k]).kind = "controller"
  /\ \E res \in {ResponseUtilSuccess("Success", 200),
                 errorHandler(AppError("Invalid credentials", 401), nodeEnv)} :
       LET r1 == [conn[k] EXCEPT !.ran = Append(@, "controller")] IN
       /\ conn' = [conn EXCEPT ![k] = [r1 EXCEPT !.res = res]]
       /\ hits' = OnFinish(hits, r1, res.status)
  /\ UNCHANGED <<gateVars, cacheVars, pageVars, asyncVars, arrived, svcVars>>

\* The exchange is over; the connection is free again.
LimitRelease(k) ==
  /\ conn[k] # NoConn /\ conn[k].res # NoRes
  /\ conn' = [conn EXCEPT ![k] = NoConn]
  /\ UNCHANGED <<gateVars, cacheVars, pageVars, asyncVars, hits, arrived, svcVars>>

\* windowMs after its first hit the window of a counter is over: the store
\* resets it.
WindowElapses(key) ==
  /\ hits[key].open
  /\ hits' = [hits EXCEPT ![key] = [NoHits EXCEPT !.windows = hits[key].windows]]
  /\ UNCHANGED <<gateVars, cacheVars, pageVars, asyncVars, conn, arrived, svcVars>>

InitLimit ==
  /\ nodeEnv = "production"
  /\ req = IdleReq
  /\ redisClient = "ready"
  /\ CacheQuiet
  /\ LimitQuiet
  /\ PageQuiet
  /\ AsyncQuiet
  /\ SvcQuiet

NextLimit ==
  \/ \E k \in Conns : ApiLimit(k)
  \/ \E k \in Conns : GroupLimit(k)
  \/ \E k \in Conns : GateStep(k)
  \/ \E k \in Conns : HandlerStep(k)
  \/ \E k \in Conns : LimitRelease(k)
  \/ \E key \in CounterKeys : WindowElapses(key)

SpecLimit == InitLimit /\ [][NextLimit]_vars

\* The authentication endpoints under concurrent requests.
NextAuthLimit ==
  \/ \E k \in Conns : ApiLimitAuth(k)
  \/ \E k \in Conns : GroupLimit(k)
  \/ \E k \in Conns : GateStep(k)
  \/ \E k \in Conns : HandlerStep(k)
  \/ \E k \in Conns : LimitRelease(k)
  \/ \E key \in CounterKeys : WindowElapses(key)

SpecAuthLimit == InitLimit /\ [][NextAuthLimit]_vars

(***************************************************************************)
(* Paginated listings                                                      *)
(***************************************************************************)
\* A listing controller (getAllArticles and its like): parse the query, let
\* the service query with its offset and count the rows, answer through
\* ResponseUtil.paginated.  What the ORM does with an offset that is not a
\* number is not fixed here: it throws, or it runs the query.
ListArticles ==
  /\ pg.pc = "start"
  /\ \E total \in Totals, throws \in BOOLEAN :
       LET params == parsePaginationParams(pg.query)
           skip == JsMul(JsSub(params.page, Num(1)), params.limit)
           e == errorHandler(PlainError("PrismaClientValidationError"), nodeEnv)
       IN /\ throws => (skip.nan \/ params.limit.nan)
          /\ pg' = [pg EXCEPT !.pc = "done", !.params = params, !.skip = skip,
                      !.take = params.limit,
                      !.res = IF throws
                                THEN [status |-> e.status, success |-> e.success,
                                      message |-> e.message, keys |-> e.keys,
                                      meta |-> NoMeta]
                                ELSE ResponseUtilPaginated(Num(total), params.page,
                                                           params.limit)]
  /\ UNCHANGED <<gateVars, cacheVars, limitVars, asyncVars, svcVars>>

InitPage ==
  /\ nodeEnv = "production"
  /\ req = IdleReq
  /\ redisClient = "ready"
  /\ CacheQuiet
  /\ LimitQuiet
  /\ AsyncQuiet
  /\ SvcQuiet
  /\ \E page \in QueryValues, limit \in QueryValues :
       pg = [IdlePage EXCEPT !.query = [page |-> page, limit |-> limit], !.pc = "start"]

NextPage == ListArticles

SpecPage == InitPage /\ [][NextPage]_vars

(***************************************************************************)
(* A controller call under asyncHandler                                    *)
(***************************************************************************)
\* The route handler runs: the wrapped controller answers through
\* ResponseUtil, or fails with an error.
Invoke ==
  /\ call.pc = "start"
  /\ \E out \in FnOutcomes :
       LET h == asyncHandler(out) IN
         call' = [call EXCEPT !.pc = h.pc, !.out = out, !.err = h.err,
                    !.at = IF h.pc = "next" THEN 1 ELSE 0,
                    !.sent = IF out.kind = "resolved" THEN 1 ELSE 0,
                    !.by = IF out.kind = "resolved" THEN "controller" ELSE "",
                    !.res = IF out.kind = "resolved"
                              THEN ResponseUtilSuccess("Success", 200) ELSE NoRes]
  /\ UNCHANGED <<gateVars, cacheVars, limitVars, pageVars, svcVars>>

\* next(err): the router offers the error to the next handler mounted after
\* the routes; one that takes no error is passed over.
SkipHandler ==
  /\ call.pc = "next" /\ call.at \in 1..Len(TerminalHandlers)
  /\ ~TerminalHandlers[call.at].takesError
  /\ call' = [call EXCEPT !.at = @ + 1]
  /\ UNCHANGED <<gateVars, cacheVars, limitVars, pageVars, svcVars>>

\* errorHandler answers
HandleError ==
  /\ call.pc = "next" /\ call.at \in 1..Len(TerminalHandlers)
  /\ TerminalHandlers[call.at].takesError
  /\ call' = [call EXCEPT !.pc = "done", !.sent = @ + 1,
                !.by = TerminalHandlers[call.at].name,
                !.res = errorHandler(call.err, nodeEnv)]
  /\ UNCHANGED <<gateVars, cacheVars, limitVars, pageVars, svcVars>>

InitAsync ==
  /\ nodeEnv \in {"development", "production"}
  /\ req = IdleReq
  /\ redisClient = "ready"
  /\ CacheQuiet
  /\ LimitQuiet
  /\ PageQuiet
  /\ SvcQuiet
  /\ call = [IdleCall EXCEPT !.pc = "start"]

NextAsync == Invoke \/ SkipHandler \/ HandleError

\* The event loop runs every settled promise's callbacks and the router
\* every pending next().
SpecAsync == InitAsync /\ [][NextAsync]_vars /\ WF_vars(NextAsync)

(***************************************************************************)
(* Newsletter subscribe / unsubscribe and submission creation              *)
(***************************************************************************)
\* NewsletterService.subscribe / unsubscribe up to the database write
NewsletterSave ==
  /\ mail.pc = "start" /\ mail.op \in {"subscribe", "unsubscribe"}
  /\ mail' =
       IF mail.op = "subscribe"
         THEN IF mail.prior = "ACTIVE"
                THEN [mail EXCEPT !.pc = "done", !.status = 400]
                ELSE AfterSave([mail EXCEPT !.saved = TRUE, !.isNew = (mail.prior = "none")])
       ELSE IF mail.prior = "none" THEN [mail EXCEPT !.pc = "done", !.status = 404]
       ELSE IF mail.prior = "UNSUBSCRIBED" THEN [mail EXCEPT !.pc = "done", !.status = 400]
       ELSE AfterSave([mail EXCEPT !.saved = TRUE])
  /\ UNCHANGED mailFrame

\* The awaited call (Mailchimp, or the welcome email) settles.  addSubscriber
\* retries a member that exists as an update; every failure is caught.
AwaitedSettles ==
  /\ mail.pc = "await" /\ mail.awaiting # ""
  /\ \E out \in ThirdPartyOutcomes \cup {"exists"} :
       /\ out = "exists" => (mail.awaiting = "mailchimp" /\ mail.op = "subscribe")
       /\ LET logged == [mail EXCEPT !.log = @ \cup {<<mail.awaiting, out>>}] IN
          mail' =
            IF out = "exists"
              THEN [logged EXCEPT !.awaiting = "mailchimpUpdate"]
            ELSE IF mail.awaiting \in {"mailchimp", "mailchimpUpdate"}
                    /\ mail.op = "subscribe" /\ mail.isNew
              THEN [logged EXCEPT !.awaiting = "", !.pc = "welcome"]
            ELSE [logged EXCEPT !.awaiting = "", !.pc = "return"]
  /\ UNCHANGED mailFrame

\* sendWelcomeEmail: sendEmail throws at once without an API key, else the
\* send is awaited
WelcomeEmail ==
  /\ mail.pc = "welcome"
  /\ mail' = IF mail.sendgrid
               THEN [mail EXCEPT !.pc = "await", !.awaiting = "welcome"]
               ELSE [mail EXCEPT !.pc = "return",
                                 !.log = @ \cup {<<"welcome", "not configured">>}]
  /\ UNCHANGED mailFrame

\* createContactSubmission / createArtistSubmission: the record is written,
\* the emails are started and not awaited
SubmissionSave ==
  /\ mail.pc = "start" /\ mail.op \in {"contact", "artist"}
  /\ mail' = [mail EXCEPT !.saved = TRUE, !.pc = "return",
                !.background = IF mail.sendgrid THEN SubmissionEmails ELSE {},
                !.log = IF mail.sendgrid THEN @
                        ELSE {<<e, "not configured">> : e \in SubmissionEmails}]
  /\ UNCHANGED mailFrame

\* An email that was not awaited settles, before or after the response
BackgroundSettles ==
  /\ mail.background # {}
  /\ \E e \in mail.background, out \in ThirdPartyOutcomes :
       mail' = [mail EXCEPT !.background = @ \ {e}, !.log = @ \cup {<<e, out>>}]
  /\ UNCHANGED mailFrame

\* The service returns and the controller answers
MailRespond ==
  /\ mail.pc = "return"
  /\ mail' = [mail EXCEPT !.pc = "done",
                !.status = IF mail.op = "unsubscribe" THEN 200 ELSE 201]
  /\ UNCHANGED mailFrame

InitMail ==
  /\ nodeEnv = "production"
  /\ req = IdleReq
  /\ redisClient = "ready"
  /\ CacheQuiet
  /\ LimitQuiet
  /\ PageQuiet
  /\ AsyncQuiet
  /\ mailRestQuiet
  /\ \E op \in MailOps, prior \in PriorRecords, mc \in BOOLEAN, sg \in BOOLEAN :
       /\ op \in {"contact", "artist"} => prior = "none"
       /\ mail = [IdleMail EXCEPT !.op = op, !.prior = prior, !.mailchimp = mc,
                                  !.sendgrid = sg, !.pc = "start"]

NextMail ==
  \/ NewsletterSave
  \/ AwaitedSettles
  \/ WelcomeEmail
  \/ SubmissionSave
  \/ BackgroundSettles
  \/ MailRespond

SpecMail == InitMail /\ [][NextMail]_vars

(***************************************************************************)
(* The auth routes                                                         *)
(***************************************************************************)
\* login up to bcrypt.compare: the user is looked up and checked
LoginRead(c) ==
  /\ sess[c].pc = "idle" /\ authOps < MaxAuthOps
  /\ \E email \in LoginEmails, valid \in BOOLEAN :
       LET user == FindUserByEmail(users, email)
           out == loginChecks(user)
       IN sess' = [sess EXCEPT ![c] =
            [@ EXCEPT !.op = "login", !.email = email, !.passwordValid = valid,
                      !.seen = user, !.sent = NoAuthHeader,
                      !.pc = IF out = NoAuthRes THEN "compare" ELSE "idle",
                      !.res = out]]
  /\ authOps' = authOps + 1
  /\ UNCHANGED <<users, authFrame>>

\* login after bcrypt.compare: the tokens are signed from the record read
LoginFinish(c) ==
  /\ sess[c].pc = "compare"
  /\ LET out == loginIssue(sess[c].seen, sess[c].passwordValid) IN
       sess' = [sess EXCEPT ![c] =
         [@ EXCEPT !.pc = "idle", !.res = out,
                   !.activeAtIssue = IF out.status = 200
                                       THEN FindUserById(users, out.id).isActive ELSE @,
                   !.access = IF out.status = 200 THEN out.access ELSE @,
                   !.refresh = IF out.status = 200 THEN out.refresh ELSE @,
                   !.loggedIn = IF out.status = 200 THEN sess[c].email ELSE @]]
  /\ UNCHANGED <<users, authOps, authFrame>>

\* POST /auth/refresh with the refresh token held, with the access token in
\* its place, or with nothing that verifies
Refresh(c) ==
  /\ sess[c].pc = "idle" /\ authOps < MaxAuthOps
  /\ \E token \in {sess[c].refresh, sess[c].access, NoToken} :
       LET out == refreshTokenOutcome(token, users) IN
         sess' = [sess EXCEPT ![c] =
           [@ EXCEPT !.op = "refresh", !.res = out, !.sent = Bearer(token),
                     !.seen = FindUserById(users, token.userId),
                     !.activeAtIssue = IF out.status = 200
                                         THEN FindUserById(users, out.id).isActive ELSE @,
                     !.access = IF out.status = 200 THEN out.access ELSE @]]
  /\ authOps' = authOps + 1
  /\ UNCHANGED <<users, authFrame>>

\* GET /auth/me with the access token held, with the refresh token in its
\* place, or without the header
Me(c) ==
  /\ sess[c].pc = "idle" /\ authOps < MaxAuthOps
  /\ \E header \in {NoAuthHeader, Bearer(sess[c].access), Bearer(sess[c].refresh)} :
       sess' = [sess EXCEPT ![c] =
         [@ EXCEPT !.op = "me", !.sent = header,
                   !.seen = FindUserById(users, header.token.id),
                   !.res = getProfileOutcome(header, users)]]
  /\ authOps' = authOps + 1
  /\ UNCHANGED <<users, authFrame>>

\* Time passes: the tokens a client holds expire
TokensExpire(c) ==
  /\ sess[c].pc = "idle" /\ sess[c].refresh # NoToken /\ ~sess[c].refresh.expired
  /\ sess' = [sess EXCEPT ![c] =
       [@ EXCEPT !.access = [@ EXCEPT !.expired = TRUE],
                 !.refresh = [@ EXCEPT !.expired = TRUE]]]
  /\ UNCHANGED <<users, authOps, authFrame>>

\* An administrator deactivates a user in the database
Deactivate(u) ==
  /\ users[u].exists /\ users[u].isActive
  /\ users' = [users EXCEPT ![u] = [@ EXCEPT !.isActive = FALSE]]
  /\ UNCHANGED <<sess, authOps, authFrame>>

InitAuth ==
  /\ nodeEnv = "production"
  /\ req = IdleReq
  /\ redisClient = "ready"
  /\ CacheQuiet
  /\ LimitQuiet
  /\ PageQuiet
  /\ AsyncQuiet
  /\ authRestQuiet
  /\ users \in {[u \in UserIds |-> UserRecord(u, u = "u1" \/ second, TRUE)] :
                  second \in BOOLEAN}
  /\ sess = [c \in AuthClients |-> IdleSession]
  /\ authOps = 0

NextAuth ==
  \/ \E c \in AuthClients : LoginRead(c)
  \/ \E c \in AuthClients : LoginFinish(c)
  \/ \E c \in AuthClients : Refresh(c)
  \/ \E c \in AuthClients : Me(c)
  \/ \E c \in AuthClients : TokensExpire(c)
  \/ \E u \in UserIds : Deactivate(u)

SpecAuth == InitAuth /\ [][NextAuth]_vars

(***************************************************************************)
(* register, createVariant and updateVariant                               *)
(***************************************************************************)
\* register / createVariant up to the write: the unique field is looked up
CreateCheck(p) ==
  /\ up[p].pc = "idle" /\ uniqueOps < MaxUniqueOps
  /\ \E op \in {"register", "createVariant"}, key \in UniqueKeys :
       LET taken == KeyInUse(rows[EntityOf(op)], key) IN
         up' = [up EXCEPT ![p] =
           [op |-> op, key |-> key, id |-> 0, sawFree |-> ~taken,
            pc |-> IF taken THEN "idle" ELSE "write",
            res |-> IF taken THEN errorHandlerStatus(AppError(InUseMessage(op), 400))
                    ELSE NoUniqueRes]]
  /\ uniqueOps' = uniqueOps + 1
  /\ UNCHANGED <<rows, uniqFrame>>

\* updateVariant up to the write: the variant is looked up, and the new SKU
\* if it differs from the variant's own
UpdateCheck(p) ==
  /\ up[p].pc = "idle" /\ uniqueOps < MaxUniqueOps
  /\ \E id \in RowIds, key \in UniqueKeys :
       LET found == {r \in rows["variant"] : r.id = id}
           changes == \A r \in found : r.key # key
           taken == found # {} /\ changes /\ KeyInUse(rows["variant"], key)
       IN up' = [up EXCEPT ![p] =
            [op |-> "updateVariant", key |-> key, id |-> id, sawFree |-> ~taken,
             pc |-> IF found = {} \/ taken THEN "idle" ELSE "write",
             res |-> IF found = {}
                       THEN errorHandlerStatus(AppError("Variant not found", 404))
                     ELSE IF taken
                       THEN errorHandlerStatus(AppError(InUseMessage("updateVariant"), 400))
                     ELSE NoUniqueRes]]
  /\ uniqueOps' = uniqueOps + 1
  /\ UNCHANGED <<rows, uniqFrame>>

\* prisma create / update: the record is written, or the database refuses
\* the duplicate and errorHandler answers for the Prisma error
UniqueWrite(p) ==
  /\ up[p].pc = "write"
  /\ LET entity == EntityOf(up[p].op)
         id == IF up[p].op = "updateVariant" THEN up[p].id ELSE NextRowId(rows[entity])
         w == DbWrite(rows[entity], id, up[p].key)
     IN /\ rows' = [rows EXCEPT ![entity] = w.table]
        /\ up' = [up EXCEPT ![p] =
             [@ EXCEPT !.pc = "idle", !.id = id,
                       !.res = IF w.ok
                                 THEN [status |-> IF up[p].op = "updateVariant" THEN 200
                                                  ELSE 201,
                                       message |-> "Success"]
                                 ELSE errorHandlerStatus(
                                        PlainError("PrismaClientKnownRequestError"))]]
  /\ UNCHANGED <<uniqueOps, uniqFrame>>

InitUnique ==
  /\ nodeEnv \in {"development", "production"}
  /\ req = IdleReq
  /\ redisClient = "ready"
  /\ CacheQuiet
  /\ LimitQuiet
  /\ PageQuiet
  /\ AsyncQuiet
  /\ uniqRestQuiet
  /\ rows = [e \in Entities |-> {}]
  /\ up = [p \in UniqueCallers |-> IdleUnique]
  /\ uniqueOps = 0

NextUnique ==
  \/ \E p \in UniqueCallers : CreateCheck(p)
  \/ \E p \in UniqueCallers : UpdateCheck(p)
  \/ \E p \in UniqueCallers : UniqueWrite(p)

SpecUnique == InitUnique /\ [][NextUnique]_vars

(***************************************************************************)
(* The cart calls                                                          *)
(***************************************************************************)
CartAnswer(c, status, message) ==
  [c EXCEPT !.pc = "idle", !.status = status, !.message = message]

\* A call runs from its plan: it answers the error at once, or goes on to
\* write
CartFollow(c, plan) ==
  IF plan.write = "" THEN CartAnswer([c EXCEPT !.plan = plan], plan.status, plan.message)
  ELSE [c EXCEPT !.pc = "write", !.plan = plan]

\* addItem, getOrCreateCart: the cart is looked up
AddItemFindCart(p) ==
  /\ cp[p].pc = "idle" /\ cartOps < MaxCartOps
  /\ \E variant \in VariantIds, quantity \in Quantities :
       cp' = [cp EXCEPT ![p] =
         [IdleCartCall EXCEPT !.op = "addItem", !.variant = variant, !.quantity = quantity,
                              !.pc = IF cart.exists THEN "find" ELSE "createCart"]]
  /\ cartOps' = cartOps + 1
  /\ UNCHANGED <<cart, stock, cartFrame>>

\* addItem, getOrCreateCart: the cart is created; sessionId is unique, a
\* second cart for the session is refused
AddItemCreateCart(p) ==
  /\ cp[p].pc = "createCart"
  /\ IF cart.exists
       THEN /\ cp' = [cp EXCEPT ![p] = CartAnswer(@, 400, "Database error occurred")]
            /\ UNCHANGED cart
       ELSE /\ cart' = [cart EXCEPT !.exists = TRUE]
            /\ cp' = [cp EXCEPT ![p] = [@ EXCEPT !.pc = "find"]]
  /\ UNCHANGED <<stock, cartOps, cartFrame>>

\* addItem: the variant and the item of the cart for it are looked up
AddItemFind(p) ==
  /\ cp[p].pc = "find"
  /\ \E existingItem \in FindFirstItems(cart.items, cp[p].variant) :
       cp' = [cp EXCEPT ![p] =
         CartFollow(@, addItemPlan(cp[p].variant = "v1", stock, existingItem,
                                   cp[p].quantity))]
  /\ UNCHANGED <<cart, stock, cartOps, cartFrame>>

\* updateItemQuantity: the item is looked up with its variant
UpdateItemFind(p) ==
  /\ cp[p].pc = "idle" /\ cartOps < MaxCartOps
  /\ \E id \in ItemIds, quantity \in Quantities :
       cp' = [cp EXCEPT ![p] =
         CartFollow([IdleCartCall EXCEPT !.op = "updateItemQuantity", !.quantity = quantity],
                    updateItemQuantityPlan(FindItem(cart.items, id), stock, quantity))]
  /\ cartOps' = cartOps + 1
  /\ UNCHANGED <<cart, stock, cartFrame>>

\* removeItem: the item is looked up
RemoveItemFind(p) ==
  /\ cp[p].pc = "idle" /\ cartOps < MaxCartOps
  /\ \E id \in ItemIds :
       cp' = [cp EXCEPT ![p] =
         CartFollow([IdleCartCall EXCEPT !.op = "removeItem"],
                    removeItemPlan(FindItem(cart.items, id)))]
  /\ cartOps' = cartOps + 1
  /\ UNCHANGED <<cart, stock, cartFrame>>

\* clearCart: the cart is looked up
ClearCartFind(p) ==
  /\ cp[p].pc = "idle" /\ cartOps < MaxCartOps
  /\ cp' = [cp EXCEPT ![p] =
       CartFollow([IdleCartCall EXCEPT !.op = "clearCart"], clearCartPlan(cart.exists))]
  /\ cartOps' = cartOps + 1
  /\ UNCHANGED <<cart, stock, cartFrame>>

\* The write of a call, and its answer
CartWrite(p) ==
  /\ cp[p].pc = "write"
  /\ LET w == ApplyWrite(cart.items, cp[p].plan, cp[p].variant) IN
       /\ cart' = [cart EXCEPT !.items = w.items]
       /\ cp' = [cp EXCEPT ![p] =
            IF ~w.ok THEN CartAnswer(@, 400, "Database error occurred")
            ELSE IF cp[p].plan.status # 0
              THEN CartAnswer(@, cp[p].plan.status, cp[p].plan.message)
            ELSE CartAnswer(@, IF cp[p].op = "addItem" THEN 201 ELSE 200, "Success")]
  /\ UNCHANGED <<stock, cartOps, cartFrame>>

InitCart ==
  /\ nodeEnv = "production"
  /\ req = IdleReq
  /\ redisClient = "ready"
  /\ CacheQuiet
  /\ LimitQuiet
  /\ PageQuiet
  /\ AsyncQuiet
  /\ cartRestQuiet
  /\ cart = NoCart
  /\ stock \in 0..MaxStock
  /\ cp = [p \in CartCallers |-> IdleCartCall]
  /\ cartOps = 0

NextCart ==
  \/ \E p \in CartCallers : AddItemFindCart(p)
  \/ \E p \in CartCallers : AddItemCreateCart(p)
  \/ \E p \in CartCallers : AddItemFind(p)
  \/ \E p \in CartCallers : UpdateItemFind(p)
  \/ \E p \in CartCallers : RemoveItemFind(p)
  \/ \E p \in CartCallers : ClearCartFind(p)
  \/ \E p \in CartCallers : CartWrite(p)

SpecCart == InitCart /\ [][NextCart]_vars

(***************************************************************************)
(* Newsletter subscribe and unsubscribe for one email                      *)
(***************************************************************************)
\* subscribe / unsubscribe up to the write: findUnique and the checks
NewsRead(p) ==
  /\ np[p].pc = "idle" /\ Len(successes) < MaxNewsOps
  /\ \E op \in {"subscribe", "unsubscribe"} :
       LET plan == IF op = "subscribe" THEN subscribePlan(news) ELSE unsubscribePlan(news) IN
         np' = [np EXCEPT ![p] =
           [op |-> op, seen |-> news, write |-> plan.write,
            pc |-> IF plan.write = "" THEN "idle" ELSE "write",
            status |-> plan.status, message |-> plan.message]]
  /\ UNCHANGED <<news, successes, newsFrame>>

\* the create or update, and the answer
NewsWrite(p) ==
  /\ np[p].pc = "write"
  /\ LET w == SubscriberWrite(news, np[p].write) IN
       /\ news' = w.record
       /\ np' = [np EXCEPT ![p] =
            [@ EXCEPT !.pc = "idle",
                      !.status = IF ~w.ok THEN 400
                                 ELSE IF np[p].op = "subscribe" THEN 201 ELSE 200,
                      !.message = IF w.ok THEN "Success" ELSE "Database error occurred"]]
       /\ successes' = IF w.ok THEN Append(successes, np[p].op) ELSE successes
  /\ UNCHANGED newsFrame

InitNews ==
  /\ nodeEnv = "production"
  /\ req = IdleReq
  /\ redisClient = "ready"
  /\ CacheQuiet
  /\ LimitQuiet
  /\ PageQuiet
  /\ AsyncQuiet
  /\ newsRestQuiet
  /\ news = NoSubscriber
  /\ np = [p \in NewsCallers |-> IdleNewsCall]
  /\ successes = <<>>

NextNews ==
  \/ \E p \in NewsCallers : NewsRead(p)
  \/ \E p \in NewsCallers : NewsWrite(p)

SpecNews == InitNews /\ [][NextNews]_vars

(***************************************************************************)
(* createArticle and updateArticle (createProduct, createDJProfile and     *)
(* their updates run the same loop)                                        *)
(***************************************************************************)
createArticle ==
  /\ Len(arts) < MaxArticles
  /\ \E title \in SlugTitles :
       LET slug == SlugLoop(title, 0, AllSlugs(arts)) IN
         /\ arts' = Append(arts, [title |-> title, slug |-> slug])
         /\ lastSlug' = [op |-> "create", id |-> Len(arts) + 1, title |-> title,
                         before |-> arts]
  /\ UNCHANGED slugFrame

\* updateArticle(id, data), with or without a title in data
updateArticle ==
  /\ \E id \in 1..Len(arts), title \in SlugTitles \cup {NoTitle} :
       LET existingArticle == arts[id]
           slug == IF title # NoTitle /\ title # existingArticle.title
                     THEN SlugLoop(title, 0, SlugsOfOthers(arts, id))
                     ELSE existingArticle.slug
       IN /\ arts' = [arts EXCEPT ![id] =
                        [title |-> IF title = NoTitle THEN @.title ELSE title, slug |-> slug]]
          /\ lastSlug' = [op |-> "update", id |-> id, title |-> title,
                          before |-> arts]
  /\ UNCHANGED slugFrame

InitSlug ==
  /\ nodeEnv = "production"
  /\ req = IdleReq
  /\ redisClient = "ready"
  /\ CacheQuiet
  /\ LimitQuiet
  /\ PageQuiet
  /\ AsyncQuiet
  /\ slugRestQuiet
  /\ arts = <<>>
  /\ lastSlug = NoSlugCall

NextSlug == createArticle \/ updateArticle

SpecSlug == InitSlug /\ [][NextSlug]_vars

(***************************************************************************)
(* The settings service                                                    *)
(***************************************************************************)
InitializeDefaults ==
  /\ lastSet.n < MaxSettingOps
  /\ settings' = initializeDefaultsFrom(settings, 1)
  /\ lastSet' = SettingsCall("initializeDefaults")
  /\ UNCHANGED settingsFrame

UpdateSetting ==
  /\ lastSet.n < MaxSettingOps
  /\ \E key \in SettingKeyNames, value \in SettingValues, type \in SettingTypes,
        description \in SettingDescriptions :
       settings' = updateSettingResult(settings, key, value, type, description)
  /\ lastSet' = SettingsCall("updateSetting")
  /\ UNCHANGED settingsFrame

\* deleteSetting(key) of a setting that exists (of another it throws 404)
DeleteSetting ==
  /\ lastSet.n < MaxSettingOps
  /\ \E key \in SettingKeyNames :
       /\ settings[key] # NoSetting
       /\ settings' = [settings EXCEPT ![key] = NoSetting]
  /\ lastSet' = SettingsCall("deleteSetting")
  /\ UNCHANGED settingsFrame

InitSettings ==
  /\ nodeEnv = "production"
  /\ req = IdleReq
  /\ redisClient = "ready"
  /\ CacheQuiet
  /\ LimitQuiet
  /\ PageQuiet
  /\ AsyncQuiet
  /\ settingsRestQuiet
  /\ settings = [k \in SettingKeyNames |-> NoSetting]
  /\ lastSet = NoSettingsCall

NextSettings == InitializeDefaults \/ UpdateSetting \/ DeleteSetting

SpecSettings == InitSettings /\ [][NextSettings]_vars

(***************************************************************************)
(* HomepageService.reorderSlides                                           *)
(***************************************************************************)
reorderSlides ==
  /\ lastReorder.n < MaxReorders
  /\ \E slideOrders \in SlideOrderLists :
       LET result == transaction(slides, slideOrders) IN
         /\ slides' = result.table
         /\ lastReorder' = [list |-> slideOrders, failed |-> result.failed,
                            n |-> lastReorder.n + 1, before |-> slides]
  /\ UNCHANGED slidesFrame

\* the slides in the table when the calls begin: s1 and s2, and perhaps s3
InitSlides ==
  /\ nodeEnv = "production"
  /\ req = IdleReq
  /\ redisClient = "ready"
  /\ CacheQuiet
  /\ LimitQuiet
  /\ PageQuiet
  /\ AsyncQuiet
  /\ slidesRestQuiet
  /\ slides \in {[s \in SlideIds |-> IF s = "s3" /\ ~third THEN NoSlide
                                     ELSE Slide(IF s = "s1" THEN 0 ELSE 1)] :
                 third \in BOOLEAN}
  /\ lastReorder = NoReorder

NextSlides == reorderSlides

SpecSlides == InitSlides /\ [][NextSlides]_vars

(***************************************************************************)
(* Properties                                                              *)
(***************************************************************************)
Ran(kind) == \E i \in 1..Len(req.ran) : req.ran[i] = kind
LastRan == IF req.ran = <<>> THEN "" ELSE req.ran[Len(req.ran)]

\* The part of the header after "Bearer " is empty or starts with a space.
NoTokenHeader(h) ==
  IF h = NoHeader THEN TRUE
  ELSE IF ~(Len(h) >= 2 /\ h[1] = "Bearer" /\ h[2] = " ") THEN TRUE
  ELSE Len(h) = 2 \/ h[3] = " "

\* C1: once authenticate has run on a request whose Authorization header is
\* absent, does not start with "Bearer ", or has an empty token part, the
\* response is 401 "No token provided", no identity is attached, and
\* authenticate is the last stage that ran.
C1_NoTokenIs401 ==
  (Ran("authenticate") /\ NoTokenHeader(req.header)) =>
    /\ req.res.status = 401
    /\ req.res.success = FALSE
    /\ req.res.message = "No token provided"
    /\ req.user = NoUser
    /\ LastRan = "authenticate"

C1_Witness ==
  /\ req.header = <<"Bearer", " ">>
  /\ req.route = "articles.create"
  /\ LastRan = "authenticate"
  /\ req.res.message = "No token provided"

\* C2: a token whose signature does not verify yields 401 "Invalid token";
\* a correctly signed token that has expired yields 401 "Token expired".
C2_ExpiredIsTokenExpired ==
  (Ran("authenticate") /\ ~NoTokenHeader(req.header)) =>
    LET v == VerifyToken(Split(req.header)[2]) IN
    /\ (~v.ok /\ v.err = "TokenExpiredError") =>
          (req.res.status = 401 /\ req.res.message = "Token expired")
    /\ (~v.ok /\ v.err = "JsonWebTokenError") =>
          (req.res.status = 401 /\ req.res.message = "Invalid token")

\* C3: authorize(roles) hands the request on exactly when an identity is
\* attached and its role is in roles; without an identity it answers 401
\* "Not authenticated", with a role outside roles 403; a rejected request
\* reaches nothing downstream, the controller only ever runs for a
\* permitted identity, and authorize leaves the request context as it was.
C3_Permitted(r) ==
  r.user # NoUser /\ r.user.role \in r.stages[1].roles

C3_AuthorizeStep ==
  /\ (req.pc = 1 /\ req.res = NoRes) =>
       /\ C3_Permitted(req) <=> (req'.res = NoRes /\ req'.pc = 2)
       /\ req.user = NoUser =>
            (req'.res.status = 401 /\ req'.res.message = "Not authenticated")
       /\ (req.user # NoUser /\ ~C3_Permitted(req)) => req'.res.status = 403
       /\ ~C3_Permitted(req) => req'.ran = <<"authorize">>
       /\ req'.user = req.user /\ req'.header = req.header
       /\ req'.body = req.body /\ req'.errors = req.errors
  /\ (\E i \in 1..Len(req'.ran) : req'.ran[i] = "controller") => C3_Permitted(req)

C3_NeverPartial == [][C3_AuthorizeStep]_vars

C3_Witness ==
  /\ req.user.role = "EDITOR"
  /\ req.stages[1].roles = Admins
  /\ req.ran = <<"authorize">>
  /\ req.res.status = 403

\* C4: on a route that declares a permitted role set, a request carrying a
\* valid identity whose role is outside the set is answered 403; neither the
\* validators, the validation gate nor the controller run for it, so it is
\* never answered 400 "Validation failed", whatever its body.
C4_Denied ==
  /\ req.user # NoUser
  /\ \E i \in 1..Len(req.stages) :
       req.stages[i].kind = "authorize" /\ req.user.role \notin req.stages[i].roles

C4_ForbiddenBeforeValidation ==
  C4_Denied =>
    /\ ~Ran("validators") /\ ~Ran("validate") /\ ~Ran("controller")
    /\ req.res.message # "Validation failed"
    /\ Finished => req.res.status = 403

C4_Witness ==
  /\ C4_Denied
  /\ req.route = "products.create"
  /\ req.body = EmptyBody
  /\ req.res.status = 403

(***************************************************************************)
(* Properties of the cache-aside layer                                     *)
(***************************************************************************)
Gets == {c \in Clients : cl[c].kind = "GET"}
WithinTtl(e) == e # NoEntry /\ e.age < e.ttl
ServedFromCache(c) == cl[c].pc = "done" /\ cl[c].res.from = "cache"

C5_Repeat(c) ==
  /\ cl[c].runs = 0
  /\ cl[c].pc \in {"lookup", "done"}
  /\ cl[c].pc = "done" =>
       (cl[c].res.from = "cache" /\ cl[c].res.wire = cl[c].seen.wire)

\* C5 as stated: a GET that arrives while the entry stored by an earlier
\* response to the same URL is within its TTL is answered with that response's
\* JSON and never invokes the handler.
C5_RepeatedGetIsServedFromCache ==
  \A c \in Gets :
    (WithinTtl(cl[c].seen) /\ cl[c].seen.url = cl[c].url) => C5_Repeat(c)

\* C5 as amended: the same, provided the lookup in the cache does not fail;
\* and whatever cacheMiddleware serves from the cache was stored by a
\* response to the identical URL and is that response's JSON.
C5_RepeatedGetIsServedFromCacheUnlessLookupFails ==
  \A c \in Gets :
    /\ (WithinTtl(cl[c].seen) /\ cl[c].seen.url = cl[c].url /\ ~cl[c].lookupFailed)
         => C5_Repeat(c)
    /\ ServedFromCache(c) =>
         (cl[c].seen.url = cl[c].url /\ cl[c].res.wire = cl[c].seen.wire /\ cl[c].runs = 0)

C5_Witness ==
  \E c \in Gets :
    /\ ServedFromCache(c)
    /\ cl[c].seen.age >= 1
    /\ cl[c].res.wire = Stringify(OkBody(0))
    /\ cl[c].runs = 0

\* C6: a GET for articles received after a write's 2xx response was sent is
\* answered with data at least as new as that write, never with data cached
\* before it.
C6_GetAfterWriteIsFresh ==
  \A c \in Gets :
    (cl[c].pc = "done" /\ cl[c].url = <<"/articles">> /\ cl[c].res.wire[2].success)
      => cl[c].res.wire[2].data.ver >= cl[c].seenAck

\* C7: every value CacheService.get hands to cacheMiddleware or to getOrSet
\* comes from an entry stored less than its ttl seconds before.
C7_HitsAreWithinTtl ==
  \A c \in Clients :
    (cl[c].kind \in {"GET", "SVC"} /\ cl[c].cached # Null) =>
      /\ cl[c].seen # NoEntry
      /\ cl[c].seen.age < cl[c].seen.ttl
      /\ cl[c].cached = Parse(cl[c].seen.json)

C7_Witness ==
  \E c \in Gets :
    /\ cl[c].cached # Null
    /\ cl[c].seen.age = cl[c].seen.ttl - 1
    /\ cl[c].seen.age >= 1
    /\ ServedFromCache(c)

\* C8: only the body of a successful GET is ever stored, so nothing served
\* from the cache is an error body.
C8_OnlySuccessIsCached ==
  /\ \A k \in Keys : store[k] # NoEntry => Parse(store[k].json).success
  /\ \A c \in Gets : ServedFromCache(c) => cl[c].res.wire[2].success

\* C9: when a write is answered with a status outside 200-299, that answer
\* deletes no key, starts no pattern deletion and leaves the cache as it was.
C9_FailedWriteStep ==
  \A c \in Clients :
    (/\ cl[c].kind = "WRITE" /\ cl[c].pc = "respond" /\ cl'[c].pc = "done"
     /\ ~(cl[c].status >= 200 /\ cl[c].status <= 299))
      => (store' = store /\ tasks' = tasks)

C9_FailedWriteClearsNothing == [][C9_FailedWriteStep]_vars

C9_Witness ==
  \E c \in Clients :
    /\ cl[c].kind = "WRITE" /\ cl[c].pc = "done" /\ cl[c].res.status = 404
    /\ store[CacheKey(<<"/articles">>)] # NoEntry
    /\ tasks = {}

\* C10: whatever the cache does (no client, a failing get, set, KEYS or DEL),
\* a request that is not answered from the cache is answered with exactly its
\* handler's status and body, a request whose lookup failed runs its handler,
\* and no request is left waiting.
C10_ClientStep(c) ==
  GetContinue(c) \/ HandlerRead(c) \/ GetRespond(c) \/ WriteRespond(c)

C10_CacheFailureNeverFailsRequest ==
  \A c \in Clients :
    cl[c].kind \in {"GET", "WRITE"} =>
      /\ (cl[c].pc = "done" /\ cl[c].res.from = "handler") =>
           /\ cl[c].res.status = cl[c].status
           /\ cl[c].res.wire = Stringify(cl[c].body)
           /\ cl[c].runs = 1
      /\ (cl[c].pc = "done" /\ (cl[c].lookupFailed \/ redisClient = "null")) =>
           cl[c].res.from = "handler"
      /\ cl[c].pc \in {"lookup", "handler", "respond"} => ENABLED C10_ClientStep(c)

C10_Witness ==
  \E c \in Gets :
    /\ redisClient = "ready"
    /\ cl[c].lookupFailed /\ cl[c].seen # NoEntry
    /\ cl[c].pc = "done" /\ cl[c].res.from = "handler"
    /\ cl[c].res.status = 200

(***************************************************************************)
(* Concurrent misses                                                       *)
(***************************************************************************)
\* The store step of a request that missed, when Redis takes the command:
\* the entry under its key is then the value this request computed.
C11_Store(c) ==
  /\ GetRespond(c) \/ SvcSet(c)
  /\ store'[cl[c].key].json = Stringify(cl[c].body)
  /\ store'[cl[c].key].age = 0

\* The bodies a handler can have produced for a URL so far.
C11_Produced(url) ==
  {OkBody(v) : v \in 0..db} \cup {ErrBody("Not found")}

\* C11: requests that miss the same key each run the handler and each store;
\* whoever stores last overwrites the entry (last write wins); every such
\* client is answered with its own handler's result, and every entry in the
\* cache is a value a handler produced for the URL of its key.
C11_ConcurrentMissesLastWriteWins ==
  /\ \A c \in Clients :
       cl[c].kind \in {"GET", "SVC"} =>
         /\ (cl[c].pc = "respond" /\ redisClient = "ready") => ENABLED C11_Store(c)
         /\ (cl[c].pc = "done" /\ cl[c].res.from = "handler") =>
              /\ cl[c].runs = 1
              /\ cl[c].res.wire = IF cl[c].kind = "GET" THEN Stringify(cl[c].body)
                                  ELSE <<"value", cl[c].body>>
  /\ \A k \in Keys :
       store[k] # NoEntry =>
         /\ k \in {CacheKey(store[k].url), ServiceKey}
         /\ \E b \in C11_Produced(store[k].url) : store[k].json = Stringify(b)

C11_Witness ==
  /\ \A c \in Clients :
       /\ cl[c].kind = "GET" /\ cl[c].url = <<"/articles">>
       /\ cl[c].seen = NoEntry /\ ~cl[c].lookupFailed
       /\ cl[c].pc = "done" /\ cl[c].res.from = "handler" /\ cl[c].runs = 1
  /\ cl["c1"].body = OkBody(0)
  /\ cl["c2"].body = ErrBody("Not found")
  /\ store[CacheKey(<<"/articles">>)].json = Stringify(ErrBody("Not found"))
  /\ store[CacheKey(<<"/articles">>)].age = 0

(***************************************************************************)
(* Properties of the rate limiters                                         *)
(***************************************************************************)
Judgements(r) == {r.judged[i] : i \in 1..Len(r.judged)}

\* A request a limiter refused is answered 429 with that limiter's message,
\* and the limiter is the last stage that ran for it.
C12_Refused(r) ==
  \A i \in 1..Len(r.judged) :
    ~r.judged[i].pass =>
      /\ i = Len(r.judged)
      /\ r.res = LimiterResponse(r.judged[i].name)
      /\ r.res.status = 429 /\ r.res.message = LimiterMessage(r.judged[i].name)
      /\ r.ran[Len(r.ran)] = r.judged[i].name

\* A counter whose window is over has been reset.
C12_Reset == \A key \in CounterKeys : ~hits[key].open => hits[key].count = 0

\* C12 as stated: every limiter lets the n-th request of an address in a
\* window through exactly when n <= max; a refused request gets 429 with the
\* limiter's message and reaches nothing downstream; a counter is reset when
\* its window is over.
C12_FirstMaxPassRestRefused ==
  /\ \A k \in Conns : \A j \in Judgements(conn[k]) :
       j.pass <=> j.n <= LimiterMax(j.name)
  /\ \A k \in Conns : C12_Refused(conn[k])
  /\ C12_Reset

\* C12 as amended: the same for the limiters that count every request; with
\* skipSuccessfulRequests a request is let through whenever fewer than max
\* requests of the address in the window failed or are still in flight, and
\* refused only if at least max did.
C12_FirstMaxCountedPassRestRefused ==
  /\ \A k \in Conns : \A j \in Judgements(conn[k]) :
       IF SkipSuccessfulRequests(j.name)
         THEN /\ j.failed + j.inflight < LimiterMax(j.name) => j.pass
              /\ j.hits <= j.n
         ELSE /\ j.pass <=> j.n <= LimiterMax(j.name)
              /\ j.hits = j.n
  /\ \A k \in Conns : C12_Refused(conn[k])
  /\ C12_Reset

\* The newsletter limiter refuses a request of an address beyond max in its
\* second window: the first window ran out and the counter started again.
C12_Witness ==
  \E k \in Conns :
    /\ conn[k].route = "newsletter.subscribe"
    /\ Len(conn[k].judged) = 2
    /\ conn[k].judged[2].n = NewsletterMax + 1
    /\ ~conn[k].judged[2].pass
    /\ conn[k].res.status = 429
    /\ hits[CounterKey("newsletterLimiter", conn[k].addr)].windows = 2

AuthJudgements(r) == {j \in Judgements(r) : j.name = "authLimiter"}

\* C13 as stated: the auth limiter refuses a request only when failed
\* attempts of the client have used up the quota; requests that succeed never
\* count, so a client whose requests all succeed is never refused.
C13_OnlyFailuresConsumeQuota ==
  \A k \in Conns : \A j \in AuthJudgements(conn[k]) :
    ~j.pass => j.failed >= AuthMax

\* C13 as amended: a request counts while it is in flight and stops counting
\* when it is answered with a status below 400; the auth limiter refuses a
\* request only when the client's failed attempts in the window together
\* with its requests still in flight have reached the quota.
C13_OnlyFailuresAndPendingConsumeQuota ==
  /\ \A k \in Conns : \A j \in AuthJudgements(conn[k]) :
       /\ ~j.pass => j.failed + j.inflight >= AuthMax
       /\ j.failed + j.inflight < AuthMax => j.pass
  /\ \A a \in Addrs :
       LET h == hits[<<"authLimiter", a>>]
           pending == {k \in Conns : /\ ConnInFlight(conn[k]) /\ conn[k].addr = a
                                     /\ "authLimiter" \in JudgedNames(conn[k])}
       IN h.count <= h.failed + Cardinality(pending)

\* After more successful logins than the quota, one after the other, the
\* next request of the client is let through.
C13_Witness ==
  \E k \in Conns : \E j \in AuthJudgements(conn[k]) :
    /\ j.n = AuthMax + 1 /\ j.pass /\ j.inflight = 0 /\ j.failed = 0
    /\ conn[k].res.status = 200

\* C14: a counter changes only through a request of its own address being
\* judged by its own limiter (or, where successful requests are skipped,
\* being answered), or through its window running out; and a limiter refuses
\* a request only when more than max requests of that address reached that
\* very limiter in the window.
C14_Step ==
  /\ \A key \in DOMAIN hits :
       hits'[key] # hits[key] =>
         \/ hits[key].open /\ ~hits'[key].open /\ hits'[key].count = 0 /\ conn' = conn
         \/ \E k \in Conns :
              /\ conn'[k] # conn[k]
              /\ key[2] = conn'[k].addr
              /\ key[1] \in JudgedNames(conn'[k])
              /\ \E i \in 1..Len(Pipeline(conn'[k].route)) :
                   Pipeline(conn'[k].route)[i] = StLimiter(key[1])
  /\ \A k \in Conns : \A j \in Judgements(conn'[k]) :
       ~j.pass => j.n > LimiterMax(j.name)

C14_CountersAreIndependent == [][C14_Step]_vars

\* One address has used up its newsletter quota; a request of another
\* address is let through by the newsletter limiter.
C14_Witness ==
  \E k \in Conns :
    /\ conn[k].addr = "ip2" /\ conn[k].route = "newsletter.subscribe"
    /\ Len(conn[k].judged) = 2 /\ conn[k].judged[2].pass /\ conn[k].judged[2].n = 1
    /\ hits[<<"newsletterLimiter", "ip1">>].count > NewsletterMax
    /\ hits[<<"submissionLimiter", "ip1">>] = NoHits

(***************************************************************************)
(* Properties of the validation gate                                       *)
(***************************************************************************)
\* The text validator i of chain c is applied to: trimmed if a trim() comes
\* before it in the chain.
C15_Input(c, i, body) ==
  IF \E j \in 1..(i - 1) : c.ops[j] = "trim"
    THEN Trim(ToText(body[c.field])) ELSE ToText(body[c.field])

\* Every rule declared on the route that the body violates.
C15_Violated(route, body) ==
  LET chains == RouteValidators(route)
      rules == UNION {{<<n, i>> : i \in {m \in 1..Len(chains[n].ops) :
                                            chains[n].ops[m] # "trim"}} :
                        n \in 1..Len(chains)}
      broken == {x \in rules :
                   LET c == chains[x[1]] IN
                   /\ ~(c.optional /\ body[c.field] = Absent)
                   /\ ~ValidatorHolds(c.ops[x[2]], C15_Input(c, x[2], body))}
  IN {<<chains[x[1]].field, chains[x[1]].ops[x[2]]>> : x \in broken}

\* C15: once validate has run, a body that violates at least one declared
\* rule has been answered 400 "Validation failed" with exactly one error for
\* every violated rule, and the controller has not run (nothing is stored);
\* a body that violates none is handed on.  A create-article body without a
\* title is answered with an error for the field title.
C15_AllViolationsReported ==
  Ran("validate") =>
    LET v == C15_Violated(req.route, req.body) IN
    /\ v # {} =>
         /\ req.res.status = 400 /\ req.res.success = FALSE
         /\ req.res.message = "Validation failed"
         /\ req.res.data = v
         /\ "data" \in req.res.keys
         /\ LastRan = "validate" /\ ~Ran("controller")
         /\ db = 0
    /\ v = {} => (req.res = NoRes \/ LastRan = "controller")
    /\ (req.route = "articles.create" /\ req.body.title = Absent) =>
         (<<"title", "notEmpty">> \in req.res.data /\ req.res.status = 400)

\* A create-article body without title, with blank content and an unknown
\* status: three errors, one per violated rule.
C15_Witness ==
  /\ req.route = "articles.create"
  /\ req.body.title = Absent /\ req.body.content = <<" ">> /\ req.body.status = <<"a">>
  /\ req.res.status = 400
  /\ req.res.data = {<<"title", "notEmpty">>, <<"content", "notEmpty">>, <<"status", "isIn">>}
  /\ LastRan = "validate"

(***************************************************************************)
(* Order of the stages                                                     *)
(***************************************************************************)
\* The place of a stage in the pipeline rate limit, authentication,
\* authorization, validation, domain handler.
C16_Rank(kind) ==
  CASE kind = "limiter" -> 1
    [] kind = "authenticate" -> 2
    [] kind = "authorize" -> 3
    [] kind \in {"validators", "validate"} -> 4
    [] kind \in {"upload", "controller"} -> 5

\* C16: on every route the stages that have run for a request ran in the
\* order rate limit, authentication, authorization, validation, domain
\* handler: no rate limiter after authentication or authorization, no
\* validation or handler before the route's authorization.
C16_StagesRunInPipelineOrder ==
  \A i, j \in 1..Len(req.ran) :
    i < j => C16_Rank(req.ran[i]) <= C16_Rank(req.ran[j])

(***************************************************************************)
(* Properties of pagination                                                *)
(***************************************************************************)
\* C17: whatever page and limit the query carries (absent, zero, negative,
\* over-large, not a number), parsePaginationParams returns an integer page
\* >= 1 and an integer limit with 1 <= limit <= 100; absent parameters give
\* page 1 and limit 10.
C17_PageAndLimitAreClamped ==
  pg.pc = "done" =>
    /\ ~pg.params.page.nan /\ pg.params.page.v >= 1
    /\ ~pg.params.limit.nan /\ pg.params.limit.v >= 1 /\ pg.params.limit.v <= 100
    /\ pg.query.page = Absent => pg.params.page = Num(1)
    /\ pg.query.limit = Absent => pg.params.limit = Num(10)

\* C18: the offset queried with is (page - 1) * limit for the page and limit
\* parsePaginationParams returned, the meta of the response is {total, page,
\* limit, totalPages}, and with a clamped page and limit totalPages is the
\* least number of pages of limit rows that hold total rows.
C18_OffsetAndMeta ==
  pg.pc = "done" =>
    /\ pg.skip = JsMul(JsSub(pg.params.page, Num(1)), pg.params.limit)
    /\ pg.skip = pg.params.skip /\ pg.take = pg.params.limit
    /\ pg.res.status = 200 =>
         /\ "meta" \in pg.res.keys
         /\ pg.res.meta.page = pg.params.page /\ pg.res.meta.limit = pg.params.limit
         /\ (~pg.params.page.nan /\ ~pg.params.limit.nan) =>
              LET total == pg.res.meta.total.v
                  limit == pg.params.limit.v
                  totalPages == pg.res.meta.totalPages.v
              IN /\ ~pg.res.meta.totalPages.nan /\ ~pg.res.meta.total.nan
                 /\ pg.skip.v = (pg.params.page.v - 1) * limit /\ pg.skip.v >= 0
                 /\ totalPages * limit >= total
                 /\ total > 0 => (totalPages - 1) * limit < total
                 /\ total = 0 => totalPages = 0

\* page 11 with limit over 100: offset 1000, 101 rows make 2 pages of 100
C18_Witness ==
  /\ pg.pc = "done"
  /\ pg.query = [page |-> <<"1", "1">>, limit |-> <<"1", "0", "1">>]
  /\ pg.skip = Num(1000) /\ pg.take = Num(100)
  /\ pg.res.meta = [total |-> Num(101), page |-> Num(11), limit |-> Num(100),
                    totalPages |-> Num(2)]

(***************************************************************************)
(* Properties of the response envelope and of error propagation           *)
(***************************************************************************)
EnvelopeKeys == {"success", "message", "data", "meta"}

\* C19: every response sent, in either environment mode, has the keys success
\* and message, no key other than data and meta besides, and success is true
\* exactly when the status is 2xx.
C19_EveryResponseIsAnEnvelope ==
  Finished =>
    /\ {"success", "message"} \subseteq req.res.keys
    /\ req.res.keys \subseteq EnvelopeKeys
    /\ req.res.success <=> (req.res.status \in 200..299)

C20_Failed == call.out.kind \in {"rejected", "threw"}

C20_Answered ==
  /\ call.sent <= 1
  /\ (call.pc = "done" /\ C20_Failed) =>
       /\ call.sent = 1 /\ call.by = "errorHandler"
       /\ call.err = call.out.err
       /\ call.err.cls = "AppError" =>
            call.res.status = call.err.statusCode /\ call.res.message = call.err.message
       /\ (call.err.cls # "AppError" /\ call.err.name \notin ClassifiedNames) =>
            call.res.status = 500 /\ call.res.message = "Internal server error"

\* C20: an error thrown or rejected inside a wrapped controller reaches
\* errorHandler and is answered exactly once: an AppError with its own status
\* and message, an error errorHandler has no branch for with 500 'Internal
\* server error'; the call is always answered in the end, never twice.
C20_ErrorsAreAnsweredOnce ==
  /\ []C20_Answered
  /\ (call.pc = "start") ~> (call.pc = "done" /\ call.sent = 1)

C20_Witness ==
  /\ call.pc = "done" /\ call.out.kind = "rejected"
  /\ call.err = AppError("Not found", 404)
  /\ call.by = "errorHandler" /\ call.sent = 1 /\ call.res.status = 404

(***************************************************************************)
(* Properties of the best-effort third-party calls                         *)
(***************************************************************************)
\* C21: once the record of a subscribe, unsubscribe or submission is written,
\* the request succeeds whatever became of the Mailchimp and email calls, and
\* the response never waits for such a call.
C21_ThirdPartyIsBestEffort ==
  /\ (mail.saved /\ mail.pc = "done") => mail.status \in {200, 201}
  /\ mail.saved => ~(mail.pc = "await" /\ mail.awaiting # "")

(***************************************************************************)
(* Properties of the auth routes                                           *)
(***************************************************************************)
C22_Answered(c, op) == sess[c].pc = "idle" /\ sess[c].op = op

\* C22: a successful login returns the user of the email with an access and
\* a refresh token; GET /auth/me with the (unexpired) access token of the
\* client's login returns the profile of that same user, whoever else logged
\* in meanwhile; without the header it returns 401.
C22_MeReturnsTheUserThatLoggedIn ==
  \A c \in AuthClients :
    /\ (C22_Answered(c, "login") /\ sess[c].res.status = 200) =>
         /\ EmailOf(sess[c].res.id) = sess[c].email
         /\ sess[c].res.access # NoToken /\ sess[c].res.refresh # NoToken
         /\ sess[c].res.access.id = sess[c].res.id /\ sess[c].access.id = sess[c].res.id
    /\ (C22_Answered(c, "me") /\ ~sess[c].sent.present) => sess[c].res.status = 401
    /\ (C22_Answered(c, "me") /\ sess[c].sent.present /\ sess[c].access # NoToken
          /\ sess[c].sent.token = sess[c].access /\ ~sess[c].access.expired) =>
         /\ sess[c].res.status = 200
         /\ sess[c].res.id = sess[c].access.id
         /\ EmailOf(sess[c].res.id) = sess[c].loggedIn

\* c1 logged in as u1, c2 as u2, and c1 got u1's profile
C22_Witness ==
  /\ sess["c1"].loggedIn = "e1" /\ sess["c2"].loggedIn = "e2"
  /\ C22_Answered("c1", "me") /\ sess["c1"].sent = Bearer(sess["c1"].access)
  /\ sess["c1"].res.status = 200 /\ sess["c1"].res.id = "u1"

C28_Issued(c) ==
  /\ sess[c].pc = "idle" /\ sess[c].op \in {"login", "refresh"}
  /\ sess[c].res.status = 200

\* What login and refreshToken answer when the user they looked up is missing
\* or inactive
C28_RefusedWhenSeenInactive(c) ==
  /\ (C22_Answered(c, "login") /\ ~sess[c].seen.exists) =>
       sess[c].res.status = 401 /\ sess[c].res.access = NoToken
  /\ (C22_Answered(c, "login") /\ sess[c].seen.exists /\ ~sess[c].seen.isActive) =>
       /\ sess[c].res.status = 401 /\ sess[c].res.access = NoToken
       /\ sess[c].res.message = "Account is deactivated"
  /\ (C22_Answered(c, "refresh") /\ ~(sess[c].seen.exists /\ sess[c].seen.isActive)) =>
       /\ sess[c].res.status = 401 /\ sess[c].res.access = NoToken
       /\ sess[c].res.message = "Invalid or expired refresh token"

\* C28 (as stated): whenever login or refreshToken issues an access token,
\* the user exists and is active at that moment; a request that finds the
\* user missing or inactive fails with 401.
C28_NoTokenForInactiveUser ==
  \A c \in AuthClients :
    /\ C28_Issued(c) => sess[c].activeAtIssue
    /\ C28_RefusedWhenSeenInactive(c)

\* C28 (amended): whenever login or refreshToken issues an access token, the
\* user existed and was active when the request looked the user up; a request
\* that finds the user missing or inactive fails with 401.
C28_NoTokenForUserSeenInactive ==
  \A c \in AuthClients :
    /\ C28_Issued(c) => (sess[c].seen.exists /\ sess[c].seen.isActive)
    /\ C28_RefusedWhenSeenInactive(c)

\* a valid, unexpired refresh token of a user deactivated since is refused
C28_Witness ==
  /\ C22_Answered("c1", "refresh")
  /\ sess["c1"].sent.token = sess["c1"].refresh /\ sess["c1"].refresh # NoToken
  /\ ~sess["c1"].refresh.expired
  /\ sess["c1"].seen.exists /\ ~sess["c1"].seen.isActive
  /\ sess["c1"].res.status = 401

(***************************************************************************)
(* Properties of the unique fields                                         *)
(***************************************************************************)
C23_AtMostOnePerKey ==
  \A e \in Entities : \A r1, r2 \in rows[e] : r1.key = r2.key => r1.id = r2.id

\* What a call that has been answered found and did
C23_Rejections ==
  \A p \in UniqueCallers :
    (up[p].pc = "idle" /\ up[p].op # "") =>
      /\ ~up[p].sawFree => (up[p].res.status = 400 /\ up[p].res.message = InUseMessage(up[p].op))
      /\ up[p].res.status \in {200, 201, 400, 404}

\* A call that is answered with an error changed nothing; one that succeeds
\* left its record in the table
C23_RejectionStep ==
  \A p \in UniqueCallers :
    (up'[p].pc = "idle" /\ up[p] # up'[p]) =>
      /\ up'[p].res.status \in {400, 404} => rows' = rows
      /\ up'[p].res.status \in {200, 201} =>
           UniqueRow(up'[p].id, up'[p].key) \in rows'[EntityOf(up'[p].op)]

\* C23: register with an email in use, and createVariant / updateVariant with
\* an SKU in use, fail with 400 and change no record; under any interleaving
\* there is at most one user per email and one variant per SKU.
C23_DuplicatesAreRejected ==
  /\ [](C23_AtMostOnePerKey /\ C23_Rejections)
  /\ [][C23_RejectionStep]_vars

\* two concurrent creates of one key both found it free; the second write
\* was refused by the database and answered with 400
C23_Witness ==
  /\ up["p1"].op = "register" /\ up["p2"].op = "register" /\ up["p1"].key = up["p2"].key
  /\ up["p1"].sawFree /\ up["p2"].sawFree
  /\ up["p1"].pc = "idle" /\ up["p2"].pc = "idle"
  /\ up["p1"].res.status = 201 /\ up["p2"].res.status = 400
  /\ up["p2"].res.message = "Database error occurred"
  /\ Cardinality(rows["user"]) = 1

(***************************************************************************)
(* Properties of the cart                                                  *)
(***************************************************************************)
\* C24: under any interleaving of addItem and updateItemQuantity for the
\* session and the variant, whose stockQuantity is fixed, the cart holds at
\* most one item for the variant and its quantity is at most stockQuantity.
C24_OneItemWithinStock ==
  /\ \A i, j \in cart.items : i.variant = j.variant => i.id = j.id
  /\ \A i \in cart.items : i.quantity <= stock

C25_Failed(c) == c.pc = "idle" /\ c.status \in {400, 404}

C25_Step ==
  \A p \in CartCallers :
    (cp'[p] # cp[p] /\ C25_Failed(cp'[p])) => cart'.items = cart.items

\* C25: a cart call that fails (addItem with 404 or 400, updateItemQuantity
\* with 404 or 400, removeItem and clearCart with 404) creates, changes and
\* deletes no cart item.
C25_FailedCallChangesNoItem == [][C25_Step]_vars

\* an addItem that would exceed the stock failed and the item is as it was
C25_Witness ==
  /\ cp["p1"].op = "addItem" /\ cp["p1"].pc = "idle" /\ cp["p1"].status = 400
  /\ cp["p1"].message = "Insufficient stock"
  /\ cart.items = {CartItem(1, "v1", 2)} /\ stock = 2

(***************************************************************************)
(* Properties of the newsletter subscription                               *)
(***************************************************************************)
\* C26: under any interleaving, the successful subscribe and unsubscribe
\* calls for the email alternate, starting with subscribe; a call succeeds
\* only if it found the record in the state it needs; the record is
\* UNSUBSCRIBED exactly when its unsubscribedAt is set.
C26_SuccessesAlternate ==
  /\ \A i \in 1..Len(successes) :
       successes[i] = IF i % 2 = 1 THEN "subscribe" ELSE "unsubscribe"
  /\ \A p \in NewsCallers :
       (np[p].pc = "idle" /\ np[p].status \in {200, 201}) =>
         (np[p].seen.status = "ACTIVE") = (np[p].op = "unsubscribe")
  /\ (news.status = "UNSUBSCRIBED") = news.unsubscribedAt

(***************************************************************************)
(* Properties of the slugs                                                 *)
(***************************************************************************)
C27_Candidate(title, k) ==
  IF k = 0 THEN generateSlug(title) ELSE generateSlug(title) \o <<"-">> \o ToDecimal(k)

\* The slug the last call gave its record: the first candidate, counting from
\* the bare slug of the title, that no other record had
C27_Taken ==
  {lastSlug.before[i].slug : i \in (1..Len(lastSlug.before)) \ {lastSlug.id}}

C27_FirstFree ==
  LET slug == arts[lastSlug.id].slug IN
    \E k \in 0..Len(arts) :
      /\ slug = C27_Candidate(lastSlug.title, k)
      /\ slug \notin C27_Taken
      /\ \A j \in 0..(k - 1) : C27_Candidate(lastSlug.title, j) \in C27_Taken

C27_Retitled ==
  /\ lastSlug.op = "update" /\ lastSlug.title # NoTitle
  /\ lastSlug.title # lastSlug.before[lastSlug.id].title

\* C27: after any sequence of createArticle and updateArticle calls no two
\* articles share a slug; a created or retitled article has the slug of its
\* title, or that slug with the smallest counter k >= 1 not taken; an update
\* that does not change the title keeps the slug.
C27_SlugsAreUnique ==
  /\ \A i, j \in 1..Len(arts) : arts[i].slug = arts[j].slug => i = j
  /\ (lastSlug.op = "create" \/ C27_Retitled) => C27_FirstFree
  /\ (lastSlug.op = "update" /\ ~C27_Retitled) =>
       arts[lastSlug.id].slug = lastSlug.before[lastSlug.id].slug

\* a third article titled like two others got the counter 2
C27_Witness ==
  /\ Len(arts) = 3 /\ lastSlug.op = "create" /\ lastSlug.id = 3
  /\ arts[1].slug = <<"a">> /\ arts[2].slug = <<"a", "-", "1">>
  /\ arts[3].title = <<"A">> /\ arts[3].slug = <<"a", "-", "2">>

(***************************************************************************)
(* Properties of the settings                                              *)
(***************************************************************************)
\* C29: initializeDefaults leaves every setting that existed as it was
\* (value, type, description), creates every default key that was missing
\* with its default, creates nothing else, and run twice in a row leaves
\* what one run left.
C29_InitializeDefaultsOnlyAdds ==
  lastSet.op = "initializeDefaults" =>
    /\ \A k \in SettingKeyNames :
         IF lastSet.before[k] # NoSetting THEN settings[k] = lastSet.before[k]
         ELSE IF k \in SETTING_KEYS THEN settings[k] = DEFAULT_SETTINGS[k]
         ELSE settings[k] = NoSetting
    /\ lastSet.prev = "initializeDefaults" => settings = lastSet.before

\* initializeDefaults ran over a changed setting, a deleted one and a custom one
C29_Witness ==
  /\ lastSet.op = "initializeDefaults"
  /\ \E k \in SETTING_KEYS :
       lastSet.before[k] # NoSetting /\ lastSet.before[k] # DEFAULT_SETTINGS[k]
  /\ \E k \in SETTING_KEYS :
       lastSet.before[k] = NoSetting /\ settings[k] = DEFAULT_SETTINGS[k]

(***************************************************************************)
(* Properties of the hero slides                                           *)
(***************************************************************************)
C30_Called == lastReorder.list # <<>>

C30_Listed(id) == \E i \in 1..Len(lastReorder.list) : lastReorder.list[i].id = id

\* the last entry of the list for an id
C30_LastEntry(id) ==
  LET i == CHOOSE i \in 1..Len(lastReorder.list) :
             /\ lastReorder.list[i].id = id
             /\ \A j \in (i + 1)..Len(lastReorder.list) : lastReorder.list[j].id # id
  IN lastReorder.list[i]

\* some update of the call throws: an id without a row, or an order that is no Int
C30_SomeUpdateFails ==
  \E i \in 1..Len(lastReorder.list) :
    \/ ~lastReorder.before[lastReorder.list[i].id].exists
    \/ lastReorder.list[i].asString

C30_NothingChanged == slides = lastReorder.before

C30_UnlistedUnchanged ==
  \A id \in SlideIds : ~C30_Listed(id) => slides[id] = lastReorder.before[id]

\* C30 as stated: all-or-nothing, and on success every entry of the list has
\* its slide at the order it asks for.
C30_AllOrNothing ==
  C30_Called =>
    /\ lastReorder.failed = C30_SomeUpdateFails
    /\ lastReorder.failed => C30_NothingChanged
    /\ ~lastReorder.failed =>
         \A i \in 1..Len(lastReorder.list) :
           slides[lastReorder.list[i].id].order = lastReorder.list[i].order
    /\ C30_UnlistedUnchanged

\* C30, amended: all-or-nothing, and on success every listed slide is at the
\* order of the last entry listed for it; a failed call changes no slide and
\* slides not listed are never changed.
C30_AllOrNothingLastEntryWins ==
  C30_Called =>
    /\ lastReorder.failed = C30_SomeUpdateFails
    /\ lastReorder.failed => C30_NothingChanged
    /\ ~lastReorder.failed =>
         \A id \in SlideIds :
           C30_Listed(id) => slides[id] = Slide(C30_LastEntry(id).order)
    /\ C30_UnlistedUnchanged

\* a call failed on its second entry after a first entry that would have
\* moved a slide
C30_Witness ==
  /\ Len(lastReorder.list) = 2 /\ lastReorder.failed
  /\ ~SlideUpdateFails(lastReorder.before, lastReorder.list[1])
  /\ lastReorder.before[lastReorder.list[1].id].order # lastReorder.list[1].order
  /\ C30_NothingChanged

====
